---------------------------- MODULE Spec2Model ----------------------------
(***************************************************************************)
(* A model of scil_score_tractogram.py: the configuration reader, the      *)
(* per-bundle scoring loop, the duplicate detection, the WPC cleaning, the *)
(* false-connection scoring, the residual (NC / IS) and the tractometry    *)
(* report.                                                                 *)
(*                                                                         *)
(* Python values are modelled as follows.  An optional value (None or x)   *)
(* is the sequence <<>> or <<x>>.  A list or array of streamline ids, in   *)
(* which the code never keeps an id twice, is a set of ids; a list indexed *)
(* by bundle is a sequence.  A dict is a record (a function over its       *)
(* keys).  A binary mask is the set of its non-zero voxels.                *)
(***************************************************************************)
EXTENDS Integers, Sequences, FiniteSets, TLC

(***************************************************************************)
(* Bounds of the model.                                                    *)
(***************************************************************************)
\* the largest number of streamlines of the input tractogram
MaxStreamlines == 2
\* the largest number of keys of a bundle's mapping, where every order of
\* every choice of keys is enumerated (SpecConfig)
MaxKeys == 3

(***************************************************************************)
(* Helpers.                                                                *)
(***************************************************************************)
None == <<>>
Some(x) == <<x>>
IsNone(o) == o = <<>>
Get(o) == o[1]

Range(s) == {s[n] : n \in DOMAIN s}

\* the sequences without repetition, of length n, over the set S
RECURSIVE InjSeqs(_, _)
InjSeqs(S, n) ==
    IF n = 0 THEN {<<>>}
    ELSE UNION {{Append(s, e) : e \in S \ Range(s)} : s \in InjSeqs(S, n - 1)}

\* the union of the sets of a sequence of sets: np.unique(chain(*lists))
RECURSIVE UnionOf(_)
UnionOf(lists) ==
    IF lists = <<>> THEN {} ELSE Head(lists) \cup UnionOf(Tail(lists))

(***************************************************************************)
(* The ground-truth configuration (the json file) and the arguments.       *)
(***************************************************************************)
\* the keys read_config_file recognizes
KnownKeys ==
    {"angle", "length", "length_x", "length_y", "length_z", "gt_mask",
     "limits_mask", "endpoints", "head", "tail"}

\* a key read_config_file does not recognize
UnknownKey == "color"

\* np.inf, the upper bound of an axis whose length_* key is absent
Inf == 1000

\* os.path.join(dir, name), with the default dir ''
PathJoin(dir, name) == IF dir = "" THEN name ELSE dir \o "/" \o name

\* args.gt_masks_dir, args.limits_masks_dir, args.rois_dir: the defaults
gt_masks_dir == ""
limits_masks_dir == ""
rois_dir == ""

\* the state of one iteration of the loop on a bundle's keys
BundleInit ==
    [err |-> FALSE, angle |-> None, length |-> None, length_x |-> None,
     length_y |-> None, length_z |-> None, gt_mask |-> None,
     limit_mask |-> None, roi_option |-> None]

\* whether the bundle's mapping bc holds the key k: "k in bundle_config"
HasKey(bc, k) == k \in Range(bc.keys)

\* ReadGtMask with a slip: the flag is not looked at
ReadGtMaskOnly(st, bc, flag) ==
    [st EXCEPT !.gt_mask = Some(PathJoin(gt_masks_dir, bc.vals["gt_mask"]))]

\* the branch "elif key == 'gt_mask'"; flag is
\* args.use_gt_masks_as_limits_masks
ReadGtMask(st, bc, flag) ==
    LET gt == PathJoin(gt_masks_dir, bc.vals["gt_mask"]) IN
    IF flag
    THEN [st EXCEPT !.gt_mask = Some(gt), !.limit_mask = Some(gt)]
    ELSE [st EXCEPT !.gt_mask = Some(gt)]

\* the branch "elif key == 'limits_mask'"
ReadLimitsMask(st, bc, flag) ==
    IF flag
    THEN [st EXCEPT !.err = TRUE]
    ELSE [st EXCEPT !.limit_mask =
             Some(PathJoin(limits_masks_dir, bc.vals["limits_mask"]))]

\* ReadEndpoints with a slip: "if 'head' in bundle_config", where the tail
\* is not looked for
ReadEndpointsHeadOnly(st, bc) ==
    IF HasKey(bc, "head")
    THEN [st EXCEPT !.err = TRUE]
    ELSE [st EXCEPT !.roi_option =
             Some([gt_endpoints |-> PathJoin(rois_dir, bc.vals["endpoints"])])]

\* the branch "elif key == 'endpoints'"
ReadEndpoints(st, bc) ==
    IF HasKey(bc, "head") \/ HasKey(bc, "tail")
    THEN [st EXCEPT !.err = TRUE]
    ELSE [st EXCEPT !.roi_option =
             Some([gt_endpoints |-> PathJoin(rois_dir, bc.vals["endpoints"])])]

\* the branch "elif key == 'head'"
ReadHead(st, bc) ==
    IF ~HasKey(bc, "tail")
    THEN [st EXCEPT !.err = TRUE]
    ELSE [st EXCEPT !.roi_option =
             Some([gt_head |-> PathJoin(rois_dir, bc.vals["head"]),
                   gt_tail |-> PathJoin(rois_dir, bc.vals["tail"])])]

\* one iteration of "for key in bundle_config.keys()": bc is the bundle's
\* mapping ([keys |-> the keys in order, vals |-> key -> value]), st the
\* local variables; err is set when the iteration raises ValueError
ReadKey(st, key, bc, flag) ==
    CASE key = "angle" -> [st EXCEPT !.angle = Some(bc.vals["angle"])]
      [] key = "length" -> [st EXCEPT !.length = Some(bc.vals["length"])]
      [] key = "length_x" -> [st EXCEPT !.length_x = Some(bc.vals["length_x"])]
      [] key = "length_y" -> [st EXCEPT !.length_y = Some(bc.vals["length_y"])]
      [] key = "length_z" -> [st EXCEPT !.length_z = Some(bc.vals["length_z"])]
      [] key = "gt_mask" -> ReadGtMask(st, bc, flag)
      [] key = "limits_mask" -> ReadLimitsMask(st, bc, flag)
      [] key = "endpoints" -> ReadEndpoints(st, bc)
      [] key = "head" -> ReadHead(st, bc)
      [] key = "tail" -> st
      [] OTHER -> [st EXCEPT !.err = TRUE]

\* the loop on the keys of one bundle, from key number n on; a raise ends it
RECURSIVE ReadKeys(_, _, _, _)
ReadKeys(st, n, bc, flag) ==
    IF st.err \/ n > Len(bc.keys) THEN st
    ELSE ReadKeys(ReadKey(st, bc.keys[n], bc, flag), n + 1, bc, flag)

\* OrientationLength with a slip: an absent axis is given the bounds [0, 0]
OrientationLengthZeroDefault(st) ==
    IF IsNone(st.length_x) /\ IsNone(st.length_y) /\ IsNone(st.length_z)
    THEN None
    ELSE Some(<<IF IsNone(st.length_x) THEN <<0, 0>> ELSE Get(st.length_x),
                IF IsNone(st.length_y) THEN <<0, 0>> ELSE Get(st.length_y),
                IF IsNone(st.length_z) THEN <<0, 0>> ELSE Get(st.length_z)>>)

\* [[min_x, max_x], [min_y, max_y], [min_z, max_z]] or None
OrientationLength(st) ==
    IF IsNone(st.length_x) /\ IsNone(st.length_y) /\ IsNone(st.length_z)
    THEN None
    ELSE Some(<<IF IsNone(st.length_x) THEN <<0, Inf>> ELSE Get(st.length_x),
                IF IsNone(st.length_y) THEN <<0, Inf>> ELSE Get(st.length_y),
                IF IsNone(st.length_z) THEN <<0, Inf>> ELSE Get(st.length_z)>>)

\* the body of "for bundle in bundles" for one bundle
ReadBundle(bc, flag) ==
    IF ~HasKey(bc, "endpoints") /\ ~HasKey(bc, "head")
    THEN [BundleInit EXCEPT !.err = TRUE]
    ELSE ReadKeys(BundleInit, 1, bc, flag)

\* the lists read_config_file returns, before any bundle is read
ConfigInit ==
    [err |-> FALSE, bundles |-> <<>>, gt_masks |-> <<>>,
     limits_masks |-> <<>>, roi_options |-> <<>>, lengths |-> <<>>,
     angles |-> <<>>, orientation_lengths |-> <<>>]

\* the loop on the bundles, from bundle number n on; a raise ends it
RECURSIVE ReadBundles(_, _, _, _)
ReadBundles(acc, n, cfg, flag) ==
    IF acc.err \/ n > Len(cfg) THEN acc
    ELSE LET st == ReadBundle(cfg[n], flag) IN
         IF st.err THEN [acc EXCEPT !.err = TRUE]
         ELSE ReadBundles(
                [acc EXCEPT
                   !.bundles = Append(@, cfg[n].name),
                   !.angles = Append(@, st.angle),
                   !.lengths = Append(@, st.length),
                   !.orientation_lengths = Append(@, OrientationLength(st)),
                   !.gt_masks = Append(@, st.gt_mask),
                   !.limits_masks = Append(@, st.limit_mask),
                   !.roi_options = Append(@, st.roi_option)],
                n + 1, cfg, flag)

\* read_config_file(args): err is TRUE when it raises ValueError
read_config_file(cfg, flag) == ReadBundles(ConfigInit, 1, cfg, flag)


(***************************************************************************)
(* The files of a run: the voxel grid, the masks and the tractogram.       *)
(***************************************************************************)
\* the voxels of the grid (one axis)
Vox == {0, 1}

\* the non-zero voxels of every mask or ROI file the configurations name;
\* e1_head and e1_tail are the two sub-ROIs the endpoints ROI e1 is split
\* in; a/r1 and b/r1 are two ROI files of the same name in two directories
MaskVoxels ==
    ("r1.nii.gz" :> {0}) @@ ("r2.nii.gz" :> {1}) @@ ("r3.nii.gz" :> {0, 1})
        @@ ("a/r1.nii.gz" :> {0}) @@ ("b/r1.nii.gz" :> {1})
        @@ ("e1.nii.gz" :> {0, 1})
        @@ ("e1_head.nii.gz" :> {0}) @@ ("e1_tail.nii.gz" :> {1})
        @@ ("g0.nii.gz" :> {0}) @@ ("g1.nii.gz" :> {1})
        @@ ("g01.nii.gz" :> {0, 1})
        @@ ("gE.nii.gz" :> {})

\* the place of the last c in the string s, 0 when s holds none
LastIndexOf(s, c) ==
    LET at == {i \in 1..Len(s) : SubSeq(s, i, i) = c} IN
    IF at = {} THEN 0 ELSE CHOOSE i \in at : \A j \in at : j <= i

\* os.path.basename: what follows the last "/"
Basename(path) == SubSeq(path, LastIndexOf(path, "/") + 1, Len(path))

\* os.path.splitext: the name cut before its last ".", a leading one apart
SplitExt(name) ==
    LET i == LastIndexOf(name, ".") IN
    IF i <= 1 THEN <<name, "">>
    ELSE <<SubSeq(name, 1, i - 1), SubSeq(name, i, Len(name))>>

\* split_name_with_nii: as splitext, with ".nii.gz" one extension
split_name_with_nii(filename) ==
    LET once == SplitExt(filename) IN
    IF once[2] = ".gz"
    THEN LET twice == SplitExt(once[1]) IN <<twice[1], twice[2] \o once[2]>>
    ELSE once

\* extract_prefix: the file name without its directory and extension
extract_prefix(filename) == split_name_with_nii(Basename(filename))[1]

\* the non-zero voxels of the image a file holds
MaskOf(file) == MaskVoxels[file]

\* the ROI file names in the order sorted() gives them
FileOrder ==
    <<"a/r1.nii.gz", "b/r1.nii.gz", "e1_head.nii.gz", "e1_tail.nii.gz",
      "r1.nii.gz", "r2.nii.gz", "r3.nii.gz">>

\* a streamline: its two points, each in a voxel
Polylines == [1..2 -> Vox]

\* the tractograms of at most MaxStreamlines streamlines; the id of a
\* streamline is its index, from 0
Tractograms == UNION {[1..n -> Polylines] : n \in 0..MaxStreamlines}

\* the ids of a tractogram: np.arange(len(sft))
Ids(t) == 0..(Len(t) - 1)

\* the streamline of an id
Streamline(t, id) == t[id + 1]

\* the bundles a configuration is made of
B1 == [name |-> "b1", keys |-> <<"gt_mask", "head", "tail">>,
       vals |-> [gt_mask |-> "g01.nii.gz", head |-> "r1.nii.gz", tail |-> "r2.nii.gz"]]
B2 == [name |-> "b2", keys |-> <<"gt_mask", "length", "head", "tail">>,
       vals |-> [gt_mask |-> "g0.nii.gz", length |-> <<1, 1>>, head |-> "r1.nii.gz",
                 tail |-> "r3.nii.gz"]]
B3 == [name |-> "b3", keys |-> <<"tail", "head">>,
       vals |-> [head |-> "r1.nii.gz", tail |-> "r2.nii.gz"]]
B4 == [name |-> "b4", keys |-> <<"endpoints", "gt_mask">>,
       vals |-> [endpoints |-> "e1.nii.gz", gt_mask |-> "gE.nii.gz"]]
B5 == [name |-> "b5", keys |-> <<"head", "tail", "limits_mask", "gt_mask">>,
       vals |-> [head |-> "r2.nii.gz", tail |-> "r3.nii.gz", limits_mask |-> "g0.nii.gz",
                 gt_mask |-> "g01.nii.gz"]]
\* malformed bundles
M1 == [name |-> "m1", keys |-> <<"gt_mask", "tail">>,
       vals |-> [gt_mask |-> "g0.nii.gz", tail |-> "r2.nii.gz"]]
M2 == [name |-> "m2", keys |-> <<"head", "tail", "endpoints">>,
       vals |-> [head |-> "r1.nii.gz", tail |-> "r2.nii.gz",
                 endpoints |-> "e1.nii.gz"]]
M3 == [name |-> "m3", keys |-> <<"angle", "head">>,
       vals |-> [angle |-> 30, head |-> "r1.nii.gz"]]
M4 == [name |-> "m4", keys |-> <<"head", "tail", "color">>,
       vals |-> [head |-> "r1.nii.gz", tail |-> "r2.nii.gz", color |-> "red"]]

RunBundles == {B1, B2, B3, B4, B5, M1, M2, M3, M4}

\* three bundles whose names hold the separator of the output file names
N1 == [name |-> "AF_1", keys |-> <<"gt_mask", "head", "tail">>,
       vals |-> [gt_mask |-> "g01.nii.gz", head |-> "r1.nii.gz", tail |-> "r2.nii.gz"]]
N2 == [name |-> "AF", keys |-> <<"gt_mask", "head", "tail">>,
       vals |-> [gt_mask |-> "g01.nii.gz", head |-> "r3.nii.gz", tail |-> "r3.nii.gz"]]
N3 == [name |-> "1_AF", keys |-> <<"gt_mask", "head", "tail">>,
       vals |-> [gt_mask |-> "g0.nii.gz", head |-> "r1.nii.gz", tail |-> "r1.nii.gz"]]

\* a bundle whose two ROI files have the same name, in two directories
P1 == [name |-> "p1", keys |-> <<"gt_mask", "head", "tail">>,
       vals |-> [gt_mask |-> "g01.nii.gz", head |-> "a/r1.nii.gz",
                 tail |-> "b/r1.nii.gz"]]

\* a bundle whose gt_mask and limits mask share no voxel
D1 == [name |-> "d1", keys |-> <<"gt_mask", "limits_mask", "head", "tail">>,
       vals |-> [gt_mask |-> "g0.nii.gz", limits_mask |-> "g1.nii.gz",
                 head |-> "r2.nii.gz", tail |-> "r3.nii.gz"]]

\* the configurations of a run: one or two bundles of different names, the
\* three bundles N1, N2, N3, or the two bundles P1, D1
RunConfigs ==
    InjSeqs(RunBundles, 1) \cup InjSeqs(RunBundles, 2)
        \cup InjSeqs({N1, N2, N3}, Cardinality({N1, N2, N3}))
        \cup InjSeqs({P1, D1}, Cardinality({P1, D1}))

\* the arguments of a run
ArgSets ==
    [save_wpc_separately : BOOLEAN, compute_IC : BOOLEAN,
     remove_wpc_belonging_to_another_bundle : BOOLEAN, no_empty : BOOLEAN,
     use_gt_masks_as_limits_masks : BOOLEAN]


(***************************************************************************)
(* The functions of scilpy.tractanalysis.scoring and the geometry they     *)
(* use.                                                                    *)
(***************************************************************************)
Abs(n) == IF n < 0 THEN -n ELSE n

\* the length of a streamline: the sum of the lengths of its segments
RECURSIVE PathLength(_)
PathLength(sl) ==
    IF Len(sl) < 2 THEN 0 ELSE Abs(sl[2] - sl[1]) + PathLength(Tail(sl))

\* the displacement of a streamline along the axis: the sum of the
\* consecutive deltas, in absolute value with use_abs
RECURSIVE AxisLength(_, _)
AxisLength(sl, use_abs) ==
    IF Len(sl) < 2 THEN 0
    ELSE (IF use_abs THEN Abs(sl[2] - sl[1]) ELSE sl[2] - sl[1])
            + AxisLength(Tail(sl), use_abs)

\* the largest turning angle of a streamline, in degrees: along one axis a
\* streamline either goes on (0) or turns back (180)
MaxAngle(sl) ==
    IF \E n \in 2..(Len(sl) - 1) :
          (sl[n] - sl[n - 1]) * (sl[n + 1] - sl[n]) < 0
    THEN 180 ELSE 0

\* binary_dilation(mask, iterations=n)
RECURSIVE Dilate(_, _)
Dilate(mask, n) ==
    IF n = 0 THEN mask
    ELSE Dilate({v \in Vox : \E m \in mask : Abs(v - m) <= 1}, n - 1)

\* the endpoint test: one end in each mask, in either orientation
ConnectsBoth(sl, mask_1, mask_2) ==
    \/ sl[1] \in mask_1 /\ sl[Len(sl)] \in mask_2
    \/ sl[1] \in mask_2 /\ sl[Len(sl)] \in mask_1

\* the voxels of a streamline
VoxelsOf(sl) == Range(sl)

\* extract_vb_vs: the VS ids, the WPC ids and the stats of one bundle
extract_vb_vs(t, head_filename, tail_filename, limits_length, angle, orientation_length, inclusion_inv_mask, dilate_endpoints, use_abs) ==
    LET mask_1 == Dilate(MaskOf(head_filename), dilate_endpoints)
        mask_2 == Dilate(MaskOf(tail_filename), dilate_endpoints)
        ids0 == {id \in Ids(t) : ConnectsBoth(Streamline(t, id), mask_1, mask_2)}
        out_of_mask ==
            IF IsNone(inclusion_inv_mask) THEN {}
            ELSE {id \in ids0 :
                    VoxelsOf(Streamline(t, id)) \cap Get(inclusion_inv_mask) # {}}
        ids1 == ids0 \ out_of_mask
        bad_angle ==
            IF IsNone(angle) THEN {}
            ELSE {id \in ids1 :
                    \/ PathLength(Streamline(t, id)) = 0
                    \/ MaxAngle(Streamline(t, id)) > Get(angle)}
        ids2 == ids1 \ bad_angle
        bad_length ==
            IF IsNone(limits_length) THEN {}
            ELSE {id \in ids2 :
                    LET l == PathLength(Streamline(t, id)) IN
                    \/ l = 0
                    \/ l < Get(limits_length)[1]
                    \/ l > Get(limits_length)[2]}
        ids3 == ids2 \ bad_length
        bad_orientation ==
            IF IsNone(orientation_length) THEN {}
            ELSE {id \in ids3 :
                    LET lx == AxisLength(Streamline(t, id), use_abs)
                        b == Get(orientation_length) IN
                    \/ lx < b[1][1] \/ lx > b[1][2]
                    \/ 0 < b[2][1] \/ 0 > b[2][2]
                    \/ 0 < b[3][1] \/ 0 > b[3][2]}
        vs == ids3 \ bad_orientation
    IN  [vs_ids |-> vs,
         wpc_ids |-> out_of_mask \cup bad_angle \cup bad_length
                        \cup bad_orientation,
         bundle_stats |->
            [Initial_count_head_to_tail |-> Cardinality(ids0),
             WPC_out_of_mask |-> Cardinality(out_of_mask),
             WPC_invalid_angle |-> Cardinality(bad_angle),
             WPC_invalid_length |-> Cardinality(bad_length),
             WPC_invalid_orientation_length |-> Cardinality(bad_orientation),
             VS |-> Cardinality(vs)]]

\* extract_false_connections: the ids connecting the two ROIs
extract_false_connections(t, roi1_filename, roi2_filename, dilate_endpoints) ==
    {id \in Ids(t) :
        ConnectsBoth(Streamline(t, id),
                     Dilate(MaskOf(roi1_filename), dilate_endpoints),
                     Dilate(MaskOf(roi2_filename), dilate_endpoints))}

\* get_binary_maps: the voxels and the endpoint voxels of the streamlines
\* of the given ids
get_binary_maps(ids, t) ==
    [voxels |-> UNION {VoxelsOf(Streamline(t, id)) : id \in ids},
     endpoints |-> UNION {{Streamline(t, id)[1],
                           Streamline(t, id)[Len(Streamline(t, id))]} :
                          id \in ids}]

\* compute_endpoint_masks: the tail and the head ROI file of every bundle;
\* an endpoints ROI is split in two files
compute_endpoint_masks(roi_options) ==
    [tails |-> [n \in DOMAIN roi_options |->
                  LET o == Get(roi_options[n]) IN
                  IF "gt_endpoints" \in DOMAIN o
                  THEN extract_prefix(o.gt_endpoints) \o "_tail.nii.gz"
                  ELSE o.gt_tail],
     heads |-> [n \in DOMAIN roi_options |->
                  LET o == Get(roi_options[n]) IN
                  IF "gt_endpoints" \in DOMAIN o
                  THEN extract_prefix(o.gt_endpoints) \o "_head.nii.gz"
                  ELSE o.gt_head]]

\* compute_masks: the mask and the inverse mask of every file (None for None)
compute_masks(files) ==
    [masks |-> [n \in DOMAIN files |->
                  IF IsNone(files[n]) THEN None
                  ELSE Some(MaskOf(Get(files[n])))],
     inv_masks |-> [n \in DOMAIN files |->
                  IF IsNone(files[n]) THEN None
                  ELSE Some(Vox \ MaskOf(Get(files[n])))]]

\* a ratio a / b of two counts, kept as the pair of its terms
Ratio(a, b) == <<a, b>>

\* compute_dice_voxel: twice the common voxels over the sum of the voxels
compute_dice_voxel(mask_1, mask_2) ==
    Ratio(2 * Cardinality(mask_1 \cap mask_2),
          Cardinality(mask_1) + Cardinality(mask_2))


(***************************************************************************)
(* The state of a run of main().                                           *)
(***************************************************************************)
VARIABLES
    args,                \* the parsed arguments
    config,              \* the content of the gt_config file
    pc,                  \* the step of main() that runs next
    error,               \* the error that ended the run, "" when none
    config_read,         \* what read_config_file returned, once called
    sft,                 \* the input tractogram
    bundle_names, gt_tails, gt_heads, all_rois, lengths, angles,
    orientation_lengths, limits_inv_masks, gt_masks,
                         \* what load_and_verify_everything returns
    vs_ids_list, wpc_ids_list, bundles_stats, wpc_sft_list,
    comb_filename, ic_ids_list,
    all_vs_ids, all_wpc_ids, all_ic_ids, all_nc_ids,
    dirs,                \* the directories made under out_dir
    tractogram_files,    \* the tractograms saved under out_dir: path -> ids
    bundle_stats_dict,   \* the content of processing_stats.json, when written
    final_results,       \* the content of results.json, when written
    dataset,             \* a Dataset: its dim and its data, once constructed
    voxel,               \* the indices get_voxel_value was last called with
    value                \* what that call returned or raised

\* the Dataset of scilpy.tracking.trackable_dataset, which no step of main()
\* touches, is kept with the inputs
datasetVars == <<dataset, voxel, value>>
inputVars == <<args, config, datasetVars>>
loadVars ==
    <<config_read, sft, bundle_names, gt_tails, gt_heads, all_rois, lengths, angles,
      orientation_lengths, limits_inv_masks, gt_masks>>
vsVars == <<vs_ids_list, bundles_stats>>
icVars == <<comb_filename, ic_ids_list>>
allVars == <<all_vs_ids, all_wpc_ids, all_ic_ids, all_nc_ids>>
outVars == <<dirs, tractogram_files, bundle_stats_dict, final_results>>
vars ==
    <<pc, error, inputVars, loadVars, vsVars, wpc_ids_list, wpc_sft_list,
      icVars, allVars, outVars>>

\* args.dilate_endpoints and args.use_abs: the defaults
dilate_endpoints == 0
use_abs == FALSE

\* no file: the empty mapping from paths to ids
NoFiles == [p \in {} |-> {}]

\* save_tractogram(sft[ids], path)
save_tractogram(files, path, ids) ==
    [p \in DOMAIN files \cup {path} |-> IF p = path THEN ids ELSE files[p]]

\* list(dict.fromkeys(l)): l without its repetitions, in the order of the
\* first occurrences
RECURSIVE RemoveDuplicates(_)
RemoveDuplicates(l) ==
    IF l = <<>> THEN <<>>
    ELSE LET r == RemoveDuplicates(SubSeq(l, 1, Len(l) - 1))
             e == l[Len(l)] IN
         IF e \in Range(r) THEN r ELSE Append(r, e)

\* the state of a run before its first step, the inputs apart
NothingDone ==
    /\ error = ""
    /\ config_read = None
    /\ sft = <<>>
    /\ bundle_names = <<>> /\ gt_tails = <<>> /\ gt_heads = <<>>
    /\ all_rois = <<>> /\ lengths = <<>> /\ angles = <<>>
    /\ orientation_lengths = <<>> /\ limits_inv_masks = <<>>
    /\ gt_masks = <<>>
    /\ vs_ids_list = <<>> /\ wpc_ids_list = <<>> /\ bundles_stats = <<>>
    /\ wpc_sft_list = <<>>
    /\ comb_filename = <<>> /\ ic_ids_list = <<>>
    /\ all_vs_ids = {} /\ all_wpc_ids = {} /\ all_ic_ids = {}
    /\ all_nc_ids = {}
    /\ dirs = {}
    /\ tractogram_files = NoFiles
    /\ bundle_stats_dict = None
    /\ final_results = None

\* no Dataset is constructed
NoDataset ==
    /\ dataset = None
    /\ voxel = None
    /\ value = None

Init ==
    /\ args \in ArgSets
    /\ config \in RunConfigs
    /\ pc = "load"
    /\ NothingDone
    /\ NoDataset

\* the directories load_and_verify_everything makes before it reads the
\* configuration
MadeDirs(a) ==
    {"segmented_VB"}
        \cup (IF a.compute_IC THEN {"segmented_IB"} ELSE {})
        \cup (IF a.save_wpc_separately THEN {"segmented_WPC"} ELSE {})

\* the run ends on an error
Abort(e) ==
    /\ pc' = "aborted"
    /\ error' = e

\* load_and_verify_everything, when nothing fails and the tractogram file
\* holds one of the given tractograms
LoadFrom(tractograms) ==
    /\ pc = "load"
    /\ LET cfg == read_config_file(config, args.use_gt_masks_as_limits_masks)
       IN
       /\ ~cfg.err
       /\ \E t \in tractograms :
            LET ends == compute_endpoint_masks(cfg.roi_options) IN
            /\ config_read' = Some(cfg)
            /\ sft' = t
            /\ bundle_names' = cfg.bundles
            /\ gt_tails' = ends.tails
            /\ gt_heads' = ends.heads
            /\ all_rois' = RemoveDuplicates(ends.tails \o ends.heads)
            /\ lengths' = cfg.lengths
            /\ angles' = cfg.angles
            /\ orientation_lengths' = cfg.orientation_lengths
            /\ limits_inv_masks' = compute_masks(cfg.limits_masks).inv_masks
            /\ gt_masks' = compute_masks(cfg.gt_masks).masks
    /\ dirs' = MadeDirs(args)
    /\ pc' = "vs"
    /\ UNCHANGED <<error, inputVars, vsVars, wpc_ids_list, wpc_sft_list,
                   icVars, allVars, tractogram_files, bundle_stats_dict,
                   final_results>>

\* load_and_verify_everything, when nothing fails
LoadAndVerify == LoadFrom(Tractograms)

\* load_and_verify_everything, when the gt_config file does not exist
LoadMissingConfig ==
    /\ pc = "load"
    /\ Abort("MissingInput")
    /\ UNCHANGED <<inputVars, loadVars, vsVars, wpc_ids_list, wpc_sft_list,
                   icVars, allVars, outVars>>

\* load_and_verify_everything, when read_config_file raises
LoadConfigError ==
    /\ pc = "load"
    /\ read_config_file(config, args.use_gt_masks_as_limits_masks).err
    /\ Abort("ConfigError")
    /\ dirs' = MadeDirs(args)
    /\ UNCHANGED <<inputVars, loadVars, vsVars, wpc_ids_list, wpc_sft_list,
                   icVars, allVars, tractogram_files, bundle_stats_dict,
                   final_results>>

\* LoadBadInput with a slip: processing_stats.json is opened, and so made,
\* before the inputs are verified
LoadBadInputAfterStats ==
    /\ pc = "load"
    /\ ~read_config_file(config, args.use_gt_masks_as_limits_masks).err
    /\ \E e \in {"MissingInput", "IncompatibleHeader"} : Abort(e)
    /\ dirs' = MadeDirs(args)
    /\ bundle_stats_dict' = Some(<<>>)
    /\ UNCHANGED <<inputVars, loadVars, vsVars, wpc_ids_list, wpc_sft_list,
                   icVars, allVars, tractogram_files, final_results>>

\* load_and_verify_everything, when a mask, a ROI or the tractogram does not
\* exist, or when a mask or a ROI is not compatible with the tractogram
LoadBadInput ==
    /\ pc = "load"
    /\ ~read_config_file(config, args.use_gt_masks_as_limits_masks).err
    /\ \E e \in {"MissingInput", "IncompatibleHeader"} : Abort(e)
    /\ dirs' = MadeDirs(args)
    /\ UNCHANGED <<inputVars, loadVars, vsVars, wpc_ids_list, wpc_sft_list,
                   icVars, allVars, tractogram_files, bundle_stats_dict,
                   final_results>>


(***************************************************************************)
(* compute_vb_vs_all_bundles.                                              *)
(***************************************************************************)
nb_bundles == Len(bundle_names)

\* whether a tractogram of these ids is written: "len(..) > 0 or not
\* args.no_empty"
Written(ids, a) == ids # {} \/ ~a.no_empty

\* the path of the VS file of a bundle
VsPath(name) == "segmented_VB/" \o name \o "_VS"

\* ExtractBundle with a slip: the loop on the bundles ends after one bundle
ExtractBundleStopsEarly ==
    /\ pc = "vs"
    /\ LET i == Len(vs_ids_list) + 1
           r == extract_vb_vs(sft, gt_heads[i], gt_tails[i], lengths[i],
                              angles[i], orientation_lengths[i],
                              limits_inv_masks[i], dilate_endpoints, use_abs)
       IN
       /\ tractogram_files' =
            IF Written(r.vs_ids, args)
            THEN save_tractogram(tractogram_files, VsPath(bundle_names[i]),
                                 r.vs_ids)
            ELSE tractogram_files
       /\ vs_ids_list' = Append(vs_ids_list, r.vs_ids)
       /\ wpc_ids_list' = Append(wpc_ids_list, r.wpc_ids)
       /\ bundles_stats' = Append(bundles_stats, r.bundle_stats)
       /\ pc' = "duplicates"
    /\ UNCHANGED <<error, inputVars, loadVars, wpc_sft_list, icVars, allVars,
                   dirs, bundle_stats_dict, final_results>>

\* ExtractBundle with a slip: the call is given the limits mask where the
\* inverse of the limits mask is expected
ExtractBundleLimitsNotInverted ==
    /\ pc = "vs"
    /\ LET i == Len(vs_ids_list) + 1
           r == extract_vb_vs(sft, gt_heads[i], gt_tails[i], lengths[i],
                              angles[i], orientation_lengths[i],
                              IF IsNone(limits_inv_masks[i]) THEN None
                              ELSE Some(Vox \ Get(limits_inv_masks[i])),
                              dilate_endpoints, use_abs)
       IN
       /\ tractogram_files' =
            IF Written(r.vs_ids, args)
            THEN save_tractogram(tractogram_files, VsPath(bundle_names[i]),
                                 r.vs_ids)
            ELSE tractogram_files
       /\ vs_ids_list' = Append(vs_ids_list, r.vs_ids)
       /\ wpc_ids_list' = Append(wpc_ids_list, r.wpc_ids)
       /\ bundles_stats' = Append(bundles_stats, r.bundle_stats)
       /\ pc' = IF i = nb_bundles THEN "duplicates" ELSE "vs"
    /\ UNCHANGED <<error, inputVars, loadVars, wpc_sft_list, icVars, allVars,
                   dirs, bundle_stats_dict, final_results>>

\* one iteration of the loop on the bundles: extracts the VS and the WPC of
\* bundle i and saves the VS
ExtractBundle ==
    /\ pc = "vs"
    /\ LET i == Len(vs_ids_list) + 1
           r == extract_vb_vs(sft, gt_heads[i], gt_tails[i], lengths[i],
                              angles[i], orientation_lengths[i],
                              limits_inv_masks[i], dilate_endpoints, use_abs)
       IN
       /\ tractogram_files' =
            IF Written(r.vs_ids, args)
            THEN save_tractogram(tractogram_files, VsPath(bundle_names[i]),
                                 r.vs_ids)
            ELSE tractogram_files
       /\ vs_ids_list' = Append(vs_ids_list, r.vs_ids)
       /\ wpc_ids_list' = Append(wpc_ids_list, r.wpc_ids)
       /\ bundles_stats' = Append(bundles_stats, r.bundle_stats)
       /\ pc' = IF i = nb_bundles THEN "duplicates" ELSE "vs"
    /\ UNCHANGED <<error, inputVars, loadVars, wpc_sft_list, icVars, allVars,
                   dirs, bundle_stats_dict, final_results>>

\* the path of the conflicts file of two bundles
DuplicatesPath(name_i, name_j) ==
    "segmented_conflicts/duplicates_" \o name_i \o "_" \o name_j

\* the ids two bundles both hold as VS: np.intersect1d
DuplicateIds(vs_list, i, j) == vs_list[i] \cap vs_list[j]

\* the loop "for i .. for j in range(i + 1, nb_bundles)" from (i, j) on:
\* the files, with the conflicts files saved
RECURSIVE SaveDuplicates(_, _, _, _, _)
SaveDuplicates(files, vs_list, names, i, j) ==
    IF i > Len(names) THEN files
    ELSE IF j > Len(names)
         THEN SaveDuplicates(files, vs_list, names, i + 1, i + 2)
         ELSE LET duplicate_ids == DuplicateIds(vs_list, i, j) IN
              SaveDuplicates(
                 IF duplicate_ids # {}
                 THEN save_tractogram(files,
                         DuplicatesPath(names[i], names[j]), duplicate_ids)
                 ELSE files,
                 vs_list, names, i, j + 1)

\* whether some pair of bundles has duplicates
HasDuplicates(vs_list) ==
    \E i, j \in DOMAIN vs_list : i < j /\ DuplicateIds(vs_list, i, j) # {}

\* the end of compute_vb_vs_all_bundles: the duplicates of every pair
FindDuplicates ==
    /\ pc = "duplicates"
    /\ tractogram_files' =
          SaveDuplicates(tractogram_files, vs_ids_list, bundle_names, 1, 2)
    /\ dirs' = IF HasDuplicates(vs_ids_list)
               THEN dirs \cup {"segmented_conflicts"} ELSE dirs
    /\ pc' = "wpc"
    /\ UNCHANGED <<error, inputVars, loadVars, vsVars, wpc_ids_list,
                   wpc_sft_list, icVars, allVars, bundle_stats_dict,
                   final_results>>

(***************************************************************************)
(* save_wpc_all_bundles.                                                   *)
(***************************************************************************)
\* the path of the WPC file of a bundle
WpcPath(name) == "segmented_WPC/" \o name \o "_wpc"

\* the VS ids of the bundles other than i: all_other_gt
AllOtherGt(vs_list, i) ==
    UNION {vs_list[j] : j \in DOMAIN vs_list \ {i}}

\* CleanedWpc with a slip: only the VS of the bundles before i are taken out
CleanedWpcOfEarlier(wpc_list, vs_list, i, a) ==
    IF a.remove_wpc_belonging_to_another_bundle
    THEN wpc_list[i] \ UNION {vs_list[j] : j \in 1..(i - 1)}
    ELSE wpc_list[i]

\* the WPC ids of bundle i once cleaned
CleanedWpc(wpc_list, vs_list, i, a) ==
    IF a.remove_wpc_belonging_to_another_bundle
    THEN wpc_list[i] \ AllOtherGt(vs_list, i)
    ELSE wpc_list[i]

\* the stats of bundle i once its WPC are cleaned
CleanedStats(stats, wpc_list, vs_list, i, a) ==
    LET wpc_ids == CleanedWpc(wpc_list, vs_list, i, a)
        nb_rejected == Cardinality(wpc_list[i]) - Cardinality(wpc_ids)
    IN  [Cleaned_WPC |-> Cardinality(wpc_ids)]
          @@ (IF a.remove_wpc_belonging_to_another_bundle
              THEN [Belonging_to_another_bundle |-> nb_rejected] @@ stats[i]
              ELSE stats[i])

\* the loop on the bundles from i on: the files, with the WPC files saved
RECURSIVE SaveWpcFiles(_, _, _, _, _, _)
SaveWpcFiles(files, wpc_list, vs_list, names, i, a) ==
    IF i > Len(wpc_list) THEN files
    ELSE LET wpc_ids == CleanedWpc(wpc_list, vs_list, i, a) IN
         SaveWpcFiles(
            IF Written(wpc_ids, a)
            THEN save_tractogram(files, WpcPath(names[i]), wpc_ids)
            ELSE files,
            wpc_list, vs_list, names, i + 1, a)

\* main, "# WPC", with --save_wpc_separately: save_wpc_all_bundles
SaveWpcAllBundles ==
    /\ pc = "wpc"
    /\ args.save_wpc_separately
    /\ wpc_sft_list' =
          [i \in DOMAIN wpc_ids_list |->
              CleanedWpc(wpc_ids_list, vs_ids_list, i, args)]
    /\ bundles_stats' =
          [i \in DOMAIN bundles_stats |->
              CleanedStats(bundles_stats, wpc_ids_list, vs_ids_list, i, args)]
    /\ tractogram_files' =
          SaveWpcFiles(tractogram_files, wpc_ids_list, vs_ids_list,
                       bundle_names, 1, args)
    /\ pc' = "stats"
    /\ UNCHANGED <<error, inputVars, loadVars, vs_ids_list, wpc_ids_list,
                   icVars, allVars, dirs, bundle_stats_dict, final_results>>

\* ForgetWpc with a slip: wpc_ids_list is not emptied
ForgetWpcKeepsIds ==
    /\ pc = "wpc"
    /\ ~args.save_wpc_separately
    /\ wpc_sft_list' = <<>>
    /\ pc' = "stats"
    /\ UNCHANGED <<error, inputVars, loadVars, vsVars, wpc_ids_list, icVars,
                   allVars, outVars>>

\* main, "# WPC", without --save_wpc_separately
ForgetWpc ==
    /\ pc = "wpc"
    /\ ~args.save_wpc_separately
    /\ wpc_sft_list' = <<>>
    /\ wpc_ids_list' = <<>>
    /\ pc' = "stats"
    /\ UNCHANGED <<error, inputVars, loadVars, vsVars, icVars, allVars,
                   outVars>>

\* main, "# Save bundle stats": writes processing_stats.json
SaveBundleStats ==
    /\ pc = "stats"
    /\ bundle_stats_dict' =
          Some([name \in Range(bundle_names) |->
                  bundles_stats[CHOOSE i \in DOMAIN bundle_names :
                                   bundle_names[i] = name]])
    /\ pc' = "ic"
    /\ UNCHANGED <<error, inputVars, loadVars, vsVars, wpc_ids_list,
                   wpc_sft_list, icVars, allVars, dirs, tractogram_files,
                   final_results>>


(***************************************************************************)
(* main, "# IC", and compute_ib_ic_all_bundles.                            *)
(***************************************************************************)
\* the place of a ROI file in the order of the file names
FileRank(f) == CHOOSE n \in DOMAIN FileOrder : FileOrder[n] = f

\* sorted(l), for a list of ROI files that holds no file twice
Sorted(l) == SelectSeq(FileOrder, LAMBDA f : f \in Range(l))

\* tuple(sorted(pair)), for a pair of ROI files
SortedPair(a, b) == IF FileRank(a) <= FileRank(b) THEN <<a, b>> ELSE <<b, a>>

\* list(itertools.combinations(l, r=2)): the pairs (l[i], l[j]), i < j, in
\* the order of (i, j), from (i, j) on
RECURSIVE Combinations(_, _, _)
Combinations(l, i, j) ==
    IF i >= Len(l) THEN <<>>
    ELSE IF j > Len(l) THEN Combinations(l, i + 1, i + 2)
         ELSE <<(<<l[i], l[j]>>)>> \o Combinations(l, i, j + 1)

\* l.remove(e): l without the first occurrence of e; raises when e is not
\* in l
ListRemove(l, e) ==
    IF e \notin Range(l) THEN [err |-> TRUE, list |-> l]
    ELSE LET k == CHOOSE n \in DOMAIN l :
                     l[n] = e /\ \A m \in 1..(n - 1) : l[m] # e IN
         [err |-> FALSE,
          list |-> SubSeq(l, 1, k - 1) \o SubSeq(l, k + 1, Len(l))]

\* the loop "for vb_roi_pair in vb_roi_filenames" from pair n on
RECURSIVE RemoveTrueConnections(_, _, _, _)
RemoveTrueConnections(comb, tails, heads, n) ==
    IF n > Len(tails) THEN [err |-> FALSE, list |-> comb]
    ELSE LET vb_roi_pair == SortedPair(tails[n], heads[n])
             r == ListRemove(comb, vb_roi_pair) IN
         IF r.err THEN r
         ELSE RemoveTrueConnections(r.list, tails, heads, n + 1)

\* FalseConnections with a slip: the true connections are not removed
FalseConnectionsKeepsTrue(rois, tails, heads) ==
    [err |-> FALSE, list |-> Combinations(Sorted(rois), 1, 2)]

\* the pairs of ROIs left as false connections: comb_filename
FalseConnections(rois, tails, heads) ==
    RemoveTrueConnections(Combinations(Sorted(rois), 1, 2), tails, heads, 1)

\* the path of the IC file of a pair of ROIs
IcPath(roi) ==
    "segmented_IB/" \o extract_prefix(roi[1]) \o "_"
        \o extract_prefix(roi[2]) \o "_IC"

\* the loop of compute_ib_ic_all_bundles from pair n on: the files, with
\* the IC files saved
RECURSIVE SaveIcFiles(_, _, _, _, _)
SaveIcFiles(files, comb, t, n, a) ==
    IF n > Len(comb) THEN files
    ELSE LET ic_ids == extract_false_connections(t, comb[n][1], comb[n][2],
                                                 dilate_endpoints) IN
         SaveIcFiles(
            IF Written(ic_ids, a)
            THEN save_tractogram(files, IcPath(comb[n]), ic_ids)
            ELSE files,
            comb, t, n + 1, a)

\* main, "# IC", with --compute_IC, when every true connection is removed
ScoreIC ==
    /\ pc = "ic"
    /\ args.compute_IC
    /\ LET r == FalseConnections(all_rois, gt_tails, gt_heads) IN
       /\ ~r.err
       /\ comb_filename' = r.list
       /\ ic_ids_list' =
             [n \in DOMAIN r.list |->
                 extract_false_connections(sft, r.list[n][1], r.list[n][2],
                                           dilate_endpoints)]
       /\ tractogram_files' =
             SaveIcFiles(tractogram_files, r.list, sft, 1, args)
    /\ pc' = "nc"
    /\ UNCHANGED <<error, inputVars, loadVars, vsVars, wpc_ids_list,
                   wpc_sft_list, allVars, dirs, bundle_stats_dict,
                   final_results>>

\* main, "# IC", with --compute_IC, when comb_filename.remove raises
ScoreICError ==
    /\ pc = "ic"
    /\ args.compute_IC
    /\ FalseConnections(all_rois, gt_tails, gt_heads).err
    /\ Abort("ValueError")
    /\ UNCHANGED <<inputVars, loadVars, vsVars, wpc_ids_list, wpc_sft_list,
                   icVars, allVars, outVars>>

\* main, "# IC", without --compute_IC
SkipIC ==
    /\ pc = "ic"
    /\ ~args.compute_IC
    /\ comb_filename' = <<>>
    /\ ic_ids_list' = <<>>
    /\ pc' = "nc"
    /\ UNCHANGED <<error, inputVars, loadVars, vsVars, wpc_ids_list,
                   wpc_sft_list, allVars, outVars>>

(***************************************************************************)
(* main, "# NC": the global sets and the residual.                         *)
(***************************************************************************)
\* the path of the residual file
ResidualPath(a) == IF a.compute_IC THEN "nc" ELSE "is"

\* Residual with a slip: the IC ids are not taken out
ResidualKeepsIC(t, vs, wpc, ic) == (Ids(t) \ vs) \ wpc

\* the ids that are not VS, not WPC and not IC: three np.setdiff1d
Residual(t, vs, wpc, ic) == ((Ids(t) \ vs) \ wpc) \ ic

ComputeNC ==
    /\ pc = "nc"
    /\ all_vs_ids' = UnionOf(vs_ids_list)
    /\ all_wpc_ids' = UnionOf(wpc_ids_list)
    /\ all_ic_ids' = UnionOf(ic_ids_list)
    /\ all_nc_ids' = Residual(sft, UnionOf(vs_ids_list),
                              UnionOf(wpc_ids_list), UnionOf(ic_ids_list))
    /\ tractogram_files' =
          IF Written(all_nc_ids', args)
          THEN save_tractogram(tractogram_files, ResidualPath(args),
                               all_nc_ids')
          ELSE tractogram_files
    /\ pc' = "tractometry"
    /\ UNCHANGED <<error, inputVars, loadVars, vsVars, wpc_ids_list,
                   wpc_sft_list, icVars, dirs, bundle_stats_dict,
                   final_results>>


(***************************************************************************)
(* compute_tractometry.                                                    *)
(***************************************************************************)
\* the number of lists of ids that are not empty
NbNonEmpty(lists) == Cardinality({n \in DOMAIN lists : lists[n] # {}})

\* the first part of the report: the counts and the ratios
GlobalResults(vs, wpc, ic, nc, vs_list, wpc_list, ic_list, t) ==
    LET vs_count == Cardinality(vs)
        wpc_count == Cardinality(wpc)
        ic_count == Cardinality(ic)
        nc_count == Cardinality(nc)
        total_count == Len(t)
    IN  [VS |-> vs_count, WPC |-> wpc_count, IC |-> ic_count,
         NC |-> nc_count, IS |-> ic_count + nc_count,
         VB |-> NbNonEmpty(vs_list), IB |-> NbNonEmpty(ic_list),
         WPC_bundle |-> NbNonEmpty(wpc_list),
         VS_ratio |-> Ratio(vs_count, total_count),
         IC_ratio |-> Ratio(ic_count, total_count),
         NC_ratio |-> Ratio(nc_count, total_count),
         IS_ratio |-> Ratio(ic_count + nc_count, total_count),
         WPC_ratio |-> Ratio(wpc_count, total_count),
         total_streamlines |-> total_count]

\* a binary mask as the array of its values, 1 in the mask and 0 outside
AsArray(mask) == [v \in Vox |-> IF v \in mask THEN 1 ELSE 0]

\* np.count_nonzero on an array over the voxels
CountNonzero(array) == Cardinality({v \in Vox : array[v] # 0})

\* overlap_mask: gt_masks[i] * current_vb_voxels
OverlapMask(gt, vb) == [v \in Vox |-> AsArray(gt)[v] * AsArray(vb)[v]]

\* OverreachMask with a slip: the gt_mask is not looked at
OverreachMaskAnyGt(gt, vb) ==
    [v \in Vox |-> IF AsArray(vb)[v] >= 1 THEN 1 ELSE 0]

\* overreach_mask: 1 where gt_masks[i] == 0 and current_vb_voxels >= 1
OverreachMask(gt, vb) ==
    [v \in Vox |->
        IF AsArray(gt)[v] = 0 /\ AsArray(vb)[v] >= 1 THEN 1 ELSE 0]

\* bundle_lacking: 1 where gt_masks[i] == 1 and current_vb_voxels == 0
BundleLacking(gt, vb) ==
    [v \in Vox |->
        IF AsArray(gt)[v] = 1 /\ AsArray(vb)[v] = 0 THEN 1 ELSE 0]

\* VbResults with a slip: the Dice is computed with the gt_mask of the
\* first bundle
VbResultsFirstMask(vs_list, masks, t, i) ==
    LET maps == get_binary_maps(vs_list[i], t)
        current_vb_voxels == maps.voxels
        current_vb_endpoints_voxels == maps.endpoints
    IN  IF IsNone(masks[i]) THEN [VS |-> Cardinality(vs_list[i])]
        ELSE LET gt == Get(masks[i])
                 gt_total_nb_voxels == CountNonzero(AsArray(gt))
                 vs_overlap ==
                    CountNonzero(OverlapMask(gt, current_vb_voxels))
                 vs_overreach ==
                    CountNonzero(OverreachMask(gt, current_vb_voxels))
                 vs_lacking ==
                    CountNonzero(BundleLacking(gt, current_vb_voxels))
             IN  [VS |-> Cardinality(vs_list[i]),
                  dice |-> compute_dice_voxel(Get(masks[1]), current_vb_voxels),
                  OL |-> vs_overlap,
                  OR |-> vs_overreach,
                  lacking |-> vs_lacking,
                  OL_PCT |-> Ratio(vs_overlap, gt_total_nb_voxels),
                  OR_PCT |-> Ratio(vs_overreach, gt_total_nb_voxels),
                  endpoints_OL |->
                     CountNonzero(OverlapMask(gt, current_vb_endpoints_voxels)),
                  endpoints_OR |->
                     CountNonzero(
                        OverreachMask(gt, current_vb_endpoints_voxels))]

\* vb_results of bundle i
VbResults(vs_list, masks, t, i) ==
    LET maps == get_binary_maps(vs_list[i], t)
        current_vb_voxels == maps.voxels
        current_vb_endpoints_voxels == maps.endpoints
    IN  IF IsNone(masks[i]) THEN [VS |-> Cardinality(vs_list[i])]
        ELSE LET gt == Get(masks[i])
                 gt_total_nb_voxels == CountNonzero(AsArray(gt))
                 vs_overlap ==
                    CountNonzero(OverlapMask(gt, current_vb_voxels))
                 vs_overreach ==
                    CountNonzero(OverreachMask(gt, current_vb_voxels))
                 vs_lacking ==
                    CountNonzero(BundleLacking(gt, current_vb_voxels))
             IN  [VS |-> Cardinality(vs_list[i]),
                  dice |-> compute_dice_voxel(gt, current_vb_voxels),
                  OL |-> vs_overlap,
                  OR |-> vs_overreach,
                  lacking |-> vs_lacking,
                  OL_PCT |-> Ratio(vs_overlap, gt_total_nb_voxels),
                  OR_PCT |-> Ratio(vs_overreach, gt_total_nb_voxels),
                  endpoints_OL |->
                     CountNonzero(OverlapMask(gt, current_vb_endpoints_voxels)),
                  endpoints_OR |->
                     CountNonzero(
                        OverreachMask(gt, current_vb_endpoints_voxels))]

\* wpc_results of bundle i: empty when the bundle has no gt_mask
WpcResults(wpc_sfts, masks, t, i) ==
    IF IsNone(masks[i]) THEN <<>>
    ELSE LET gt == Get(masks[i])
             current_wpc_voxels == get_binary_maps(wpc_sfts[i], t).voxels
             wpc_overlap == Cardinality(gt \cap current_wpc_voxels)
             wpc_overreach == Cardinality(current_wpc_voxels \ gt)
         IN  [Count |-> Cardinality(wpc_sfts[i]),
              OR |-> wpc_overreach,
              OL |-> wpc_overlap,
              OR_PCT |-> Ratio(wpc_overreach, Cardinality(gt)),
              OL_PCT |-> Ratio(wpc_overlap, Cardinality(gt))]

\* bundle_results of bundle i
BundleResults(vs_list, wpc_sfts, masks, t, i, a) ==
    IF a.save_wpc_separately
    THEN [VB |-> VbResults(vs_list, masks, t, i),
          WPC |-> WpcResults(wpc_sfts, masks, t, i)]
    ELSE [VB |-> VbResults(vs_list, masks, t, i)]

\* the error that ends the loop on the bundles at bundle i, "" when none:
\* a division by gt_total_nb_voxels = 0, or vb_results["OL_PCT"] when the
\* bundle has no gt_mask
BundleError(masks, i) ==
    IF IsNone(masks[i]) THEN "KeyError"
    ELSE IF Cardinality(Get(masks[i])) = 0 THEN "ZeroDivisionError"
         ELSE ""

\* the sum of the ratios key of the vb_results of the bundles 1..n, as one
\* ratio
RECURSIVE SumRatios(_, _, _)
SumRatios(results, key, n) ==
    IF n = 0 THEN Ratio(0, 1)
    ELSE LET r == SumRatios(results, key, n - 1)
             x == results[n].VB[key]
         IN  Ratio(r[1] * x[2] + x[1] * r[2], r[2] * x[2])

\* the ic_results: the pairs of ROIs with IC, their count and their voxels
IcResults(comb, ic_list, t) ==
    [n \in {m \in DOMAIN comb : ic_list[m] # {}} |->
        [filename |-> comb[n],
         IC |-> Cardinality(ic_list[n]),
         nb_voxels |-> Cardinality(get_binary_maps(ic_list[n], t).voxels)]]

\* compute_tractometry: err is the error it raises ("" when none), results
\* the report it returns
compute_tractometry(vs, wpc, ic, nc, vs_list, wpc_list, ic_list, wpc_sfts, t, a, names, masks, comb) ==
    LET nb == Len(names)
        bad == {i \in 1..nb : BundleError(masks, i) # ""}
    IN  IF Len(t) = 0 THEN [err |-> "ZeroDivisionError", results |-> None]
        ELSE IF bad # {}
        THEN [err |-> BundleError(masks,
                         CHOOSE i \in bad : \A j \in bad : i <= j),
              results |-> None]
        ELSE LET per_bundle ==
                    [i \in 1..nb |->
                        BundleResults(vs_list, wpc_sfts, masks, t, i, a)]
                 sum_OL == SumRatios(per_bundle, "OL_PCT", nb)
                 sum_OR == SumRatios(per_bundle, "OR_PCT", nb)
             IN  [err |-> "",
                  results |->
                    Some([global |-> GlobalResults(vs, wpc, ic, nc, vs_list,
                                                   wpc_list, ic_list, t),
                          bundle_wise |->
                             LET named == [name \in Range(names) |->
                                              per_bundle[CHOOSE i \in 1..nb :
                                                            names[i] = name]]
                             IN  IF a.compute_IC
                                 THEN ("IB" :> IcResults(comb, ic_list, t))
                                          @@ named
                                 ELSE named,
                          mean_OL |-> Ratio(sum_OL[1], sum_OL[2] * nb),
                          mean_OR |-> Ratio(sum_OR[1], sum_OR[2] * nb)])]

\* main, "# Tractometry", when compute_tractometry returns: writes
\* results.json
Tractometry ==
    /\ pc = "tractometry"
    /\ LET r == compute_tractometry(all_vs_ids, all_wpc_ids, all_ic_ids,
                   all_nc_ids, vs_ids_list, wpc_ids_list, ic_ids_list,
                   wpc_sft_list, sft, args, bundle_names, gt_masks,
                   comb_filename) IN
       /\ r.err = ""
       /\ final_results' = r.results
    /\ pc' = "done"
    /\ UNCHANGED <<error, inputVars, loadVars, vsVars, wpc_ids_list,
                   wpc_sft_list, icVars, allVars, dirs, tractogram_files,
                   bundle_stats_dict>>

\* main, "# Tractometry", when compute_tractometry raises
TractometryError ==
    /\ pc = "tractometry"
    /\ LET r == compute_tractometry(all_vs_ids, all_wpc_ids, all_ic_ids,
                   all_nc_ids, vs_ids_list, wpc_ids_list, ic_ids_list,
                   wpc_sft_list, sft, args, bundle_names, gt_masks,
                   comb_filename) IN
       /\ r.err # ""
       /\ Abort(r.err)
    /\ UNCHANGED <<inputVars, loadVars, vsVars, wpc_ids_list, wpc_sft_list,
                   icVars, allVars, outVars>>

Next ==
    \/ LoadAndVerify
    \/ LoadMissingConfig
    \/ LoadConfigError
    \/ LoadBadInput
    \/ ExtractBundle
    \/ FindDuplicates
    \/ SaveWpcAllBundles
    \/ ForgetWpc
    \/ SaveBundleStats
    \/ ScoreIC
    \/ ScoreICError
    \/ SkipIC
    \/ ComputeNC
    \/ Tractometry
    \/ TractometryError

Spec == Init /\ [][Next]_vars


(***************************************************************************)
(* read_config_file alone, on every order of every choice of at most       *)
(* MaxKeys keys.                                                           *)
(***************************************************************************)
\* the value of every key in the enumerated bundles
DefaultVals ==
    [angle |-> 30, length |-> <<1, 1>>, length_x |-> <<0, 1>>,
     length_y |-> <<0, 2>>, length_z |-> <<0, 3>>, gt_mask |-> "g01.nii.gz",
     limits_mask |-> "g0.nii.gz", endpoints |-> "e1.nii.gz",
     head |-> "r1.nii.gz",
     tail |-> "r2.nii.gz", color |-> "red"]

\* the bundles of at most MaxKeys keys, the keys in every order
KeyBundles ==
    {[name |-> "b", keys |-> ks, vals |-> [k \in Range(ks) |-> DefaultVals[k]]] :
        ks \in UNION {InjSeqs(KnownKeys \cup {UnknownKey}, n) :
                        n \in 0..MaxKeys}}

\* the configurations: an enumerated bundle alone, or before or after the
\* well-formed bundle B1
KeyConfigs ==
    UNION {{<<b>>, <<b, B1>>, <<B1, b>>} : b \in KeyBundles}

\* the arguments: only use_gt_masks_as_limits_masks is read
ConfigArgSets ==
    {a \in ArgSets :
        /\ ~a.save_wpc_separately /\ ~a.compute_IC /\ ~a.no_empty
        /\ ~a.remove_wpc_belonging_to_another_bundle}

InitConfig ==
    /\ args \in ConfigArgSets
    /\ config \in KeyConfigs
    /\ pc = "read_config"
    /\ NothingDone
    /\ NoDataset

\* a call of read_config_file
ReadConfigFile ==
    /\ pc = "read_config"
    /\ LET cfg == read_config_file(config, args.use_gt_masks_as_limits_masks)
       IN
       /\ config_read' = Some(cfg)
       /\ pc' = IF cfg.err THEN "raised" ELSE "returned"
    /\ UNCHANGED <<error, inputVars, sft, bundle_names, gt_tails, gt_heads,
                   all_rois, lengths, angles, orientation_lengths,
                   limits_inv_masks, gt_masks, vsVars, wpc_ids_list,
                   wpc_sft_list, icVars, allVars, outVars>>

NextConfig == ReadConfigFile

SpecConfig == InitConfig /\ [][NextConfig]_vars

(***************************************************************************)
(* The classification of one bundle: the runs of main() up to the end of   *)
(* the loop of compute_vb_vs_all_bundles, on one bundle with any of the    *)
(* optional criteria and streamlines of at most MaxPoints points.          *)
(***************************************************************************)
MaxPoints == 3

\* the streamlines of two to MaxPoints points
LongPolylines == UNION {[1..n -> Vox] : n \in 2..MaxPoints}

\* the tractograms of at most MaxStreamlines of them
LongTractograms ==
    UNION {[1..n -> LongPolylines] : n \in 0..MaxStreamlines}

\* the keys of the optional criteria
CriteriaKeys == {"angle", "length", "length_x", "limits_mask"}

\* the bundles from r1 to r3 with any of the optional criteria
ClassifyBundles ==
    {[name |-> "b",
      keys |-> SelectSeq(<<"angle", "length", "length_x", "limits_mask",
                           "head", "tail">>,
                         LAMBDA k : k \in ks \cup {"head", "tail"}),
      vals |-> [k \in ks \cup {"head", "tail"} |->
                  IF k = "tail" THEN "r3.nii.gz" ELSE DefaultVals[k]]] :
        ks \in SUBSET CriteriaKeys}

ClassifyConfigs == {<<b>> : b \in ClassifyBundles}

\* the arguments: only no_empty is read
ClassifyArgSets ==
    {a \in ArgSets :
        /\ ~a.save_wpc_separately /\ ~a.compute_IC
        /\ ~a.remove_wpc_belonging_to_another_bundle
        /\ ~a.use_gt_masks_as_limits_masks}

InitClassify ==
    /\ args \in ClassifyArgSets
    /\ config \in ClassifyConfigs
    /\ pc = "load"
    /\ NothingDone
    /\ NoDataset

\* load_and_verify_everything, on a tractogram of longer streamlines
LoadLongTractogram == LoadFrom(LongTractograms)

NextClassify ==
    \/ LoadLongTractogram
    \/ ExtractBundle

SpecClassify == InitClassify /\ [][NextClassify]_vars

(***************************************************************************)
(* Dataset, of scilpy/tracking/trackable_dataset.py: get_voxel_value on    *)
(* images of every small shape, asked with indices in and out of bound.    *)
(***************************************************************************)
\* the largest number of voxels of an image along an axis
MaxDim == 3

\* the shapes of the images
Dims == [1..3 -> 1..MaxDim]

\* the indices get_voxel_value is asked with: from under -dim to over dim
Indices == (0 - MaxDim - 1)..(2 * MaxDim)

\* the voxels of an image of shape dim
VoxelsOfDim(dim) ==
    {v \in [1..3 -> 0..(MaxDim - 1)] : \A ax \in 1..3 : v[ax] < dim[ax]}

\* the data of the image of shape dim: every voxel has its own value
ImageData(dim) ==
    [v \in VoxelsOfDim(dim) |->
        1 + v[1] + dim[1] * (v[2] + dim[2] * v[3])]

\* Dataset.__init__: self.data and self.dim
NewDataset(dim) == [dim |-> dim, data |-> ImageData(dim)]

Min(a, b) == IF a <= b THEN a ELSE b
Max(a, b) == IF a >= b THEN a ELSE b

\* Dataset.is_voxel_in_bound
is_voxel_in_bound(self, i, j, k) ==
    /\ 0 <= i /\ i < self.dim[1]
    /\ 0 <= j /\ j < self.dim[2]
    /\ 0 <= k /\ k < self.dim[3]

\* the place an index takes along an axis of n voxels: a negative index
\* counts from the end, and an index under -n or over n - 1 is an IndexError
ArrayIndex(n, i) ==
    IF 0 <= i /\ i < n THEN Some(i)
    ELSE IF 0 - n <= i /\ i < 0 THEN Some(n + i)
    ELSE None

\* self.data[i][j][k]: err when the indexing raises IndexError
DataAt(self, i, j, k) ==
    LET ai == ArrayIndex(self.dim[1], i)
        aj == ArrayIndex(self.dim[2], j)
        ak == ArrayIndex(self.dim[3], k)
    IN  IF IsNone(ai) \/ IsNone(aj) \/ IsNone(ak)
        THEN [err |-> TRUE, value |-> 0]
        ELSE [err |-> FALSE,
              value |-> self.data[[ax \in 1..3 |->
                                     <<Get(ai), Get(aj), Get(ak)>>[ax]]]]

\* get_voxel_value with a slip: the indices are not raised to 0
get_voxel_value_no_max(self, i, j, k) ==
    IF ~is_voxel_in_bound(self, i, j, k)
    THEN DataAt(self, Min(self.dim[1] - 1, i), Min(self.dim[2] - 1, j),
                Min(self.dim[3] - 1, k))
    ELSE DataAt(self, i, j, k)

\* Dataset.get_voxel_value
get_voxel_value(self, i, j, k) ==
    IF ~is_voxel_in_bound(self, i, j, k)
    THEN DataAt(self, Max(0, Min(self.dim[1] - 1, i)),
                Max(0, Min(self.dim[2] - 1, j)),
                Max(0, Min(self.dim[3] - 1, k)))
    ELSE DataAt(self, i, j, k)

InitDataset ==
    /\ args = CHOOSE a \in ArgSets : TRUE
    /\ config = <<>>
    /\ pc = "dataset"
    /\ NothingDone
    /\ \E dim \in Dims : dataset = Some(NewDataset(dim))
    /\ voxel = None
    /\ value = None

\* a call of get_voxel_value
GetVoxelValue ==
    /\ pc = "dataset"
    /\ \E i, j, k \in Indices :
          /\ voxel' = Some(<<i, j, k>>)
          /\ value' = Some(get_voxel_value(Get(dataset), i, j, k))
    /\ pc' = "returned"
    /\ UNCHANGED <<error, args, config, dataset, loadVars, vsVars,
                   wpc_ids_list, wpc_sft_list, icVars, allVars, outVars>>

NextDataset == GetVoxelValue

SpecDataset == InitDataset /\ [][NextDataset]_vars

(***************************************************************************)
(* The properties.                                                         *)
(***************************************************************************)

\* the ways a bundle's mapping is malformed
NoEndpointSpec(bc) == ~HasKey(bc, "endpoints") /\ ~HasKey(bc, "head")
BothEndpointSpecs(bc) ==
    HasKey(bc, "endpoints") /\ (HasKey(bc, "head") \/ HasKey(bc, "tail"))
HalfEndpointSpec(bc) ==
    \/ HasKey(bc, "head") /\ ~HasKey(bc, "tail")
    \/ HasKey(bc, "tail") /\ ~HasKey(bc, "head")
UnrecognizedKey(bc) == \E k \in Range(bc.keys) : k \notin KnownKeys
LimitsMaskConflict(bc, a) ==
    HasKey(bc, "limits_mask") /\ a.use_gt_masks_as_limits_masks
Malformed(bc, a) ==
    \/ NoEndpointSpec(bc) \/ BothEndpointSpecs(bc) \/ HalfEndpointSpec(bc)
    \/ UnrecognizedKey(bc) \/ LimitsMaskConflict(bc, a)

\* C4: read_config_file raises, whatever the order of the keys, when some
\* bundle has no endpoint specification, both of them, half of head/tail,
\* an unrecognized key, or a limits_mask under
\* --use_gt_masks_as_limits_masks; and every bundle of a configuration it
\* accepts has exactly one of the two forms: the endpoints ROI alone, or
\* the head and the tail ROIs together.
C4_MalformedConfigRaises ==
    pc \in {"raised", "returned"} =>
        /\ (\E n \in DOMAIN config : Malformed(config[n], args))
              => pc = "raised"
        /\ pc = "returned" =>
              \A n \in DOMAIN config :
                 LET bc == config[n]
                     roi == Get(config_read).roi_options[n] IN
                 /\ ~IsNone(roi)
                 /\ \/ /\ DOMAIN Get(roi) = {"gt_endpoints"}
                       /\ HasKey(bc, "endpoints")
                       /\ ~HasKey(bc, "head") /\ ~HasKey(bc, "tail")
                    \/ /\ DOMAIN Get(roi) = {"gt_head", "gt_tail"}
                       /\ ~HasKey(bc, "endpoints")
                       /\ HasKey(bc, "head") /\ HasKey(bc, "tail")

\* C4, witness: a configuration whose second bundle gives the tail before
\* the endpoints ROI has made read_config_file raise
C4_Witness ==
    /\ pc = "raised"
    /\ Len(config) = 2
    /\ ~Malformed(config[1], args)
    /\ config[2].keys = <<"tail", "gt_mask", "endpoints">>


\* the VS ids, the WPC ids and the stats of bundle i, as the classifier
\* gives them for the loaded tractogram
Scored(i) ==
    extract_vb_vs(sft, gt_heads[i], gt_tails[i], lengths[i], angles[i],
                  orientation_lengths[i], limits_inv_masks[i],
                  dilate_endpoints, use_abs)

\* the ids some bundle classifies as WPC
SomeBundleWpc == UNION {Scored(i).wpc_ids : i \in DOMAIN bundle_names}

\* the ids some bundle classifies as VS
SomeBundleVs == UNION {Scored(i).vs_ids : i \in DOMAIN bundle_names}

\* the residual is computed (and, unless empty under --no_empty, written)
ResidualDone ==
    \/ pc \in {"tractometry", "done"}
    \/ pc = "aborted" /\ error \in {"KeyError", "ZeroDivisionError"}

\* the report compute_tractometry returned
Report == Get(final_results)

\* C1: in every run that ends with a report, the global VS, WPC, IC and NC
\* sets are pairwise disjoint and cover the ids, and the reported counts
\* add up to the number of streamlines.
C1_GlobalPartition ==
    pc = "done" =>
        /\ all_vs_ids \cap all_wpc_ids = {}
        /\ all_vs_ids \cap all_ic_ids = {}
        /\ all_wpc_ids \cap all_ic_ids = {}
        /\ all_nc_ids \cap (all_vs_ids \cup all_wpc_ids \cup all_ic_ids) = {}
        /\ all_vs_ids \cup all_wpc_ids \cup all_ic_ids \cup all_nc_ids
              = Ids(sft)
        /\ Report.global.VS + Report.global.WPC + Report.global.IC
              + Report.global.NC = Report.global.total_streamlines

\* C2, as stated: without --save_wpc_separately, no id that some bundle
\* classifies as WPC is in the residual.
C2_WpcNeverInResidual ==
    (ResidualDone /\ ~args.save_wpc_separately) =>
        SomeBundleWpc \cap all_nc_ids = {}

\* C2, amended: without --save_wpc_separately the global WPC set is empty
\* and the residual is "not VS, not IC": an id that some bundle classifies
\* as WPC is left out of the residual exactly when it is a VS of some
\* bundle or an IC of some false pair.
C2_WpcInResidualUnlessVsOrIc ==
    (ResidualDone /\ ~args.save_wpc_separately) =>
        /\ all_wpc_ids = {}
        /\ \A id \in SomeBundleWpc :
              id \notin all_nc_ids
                 <=> id \in UnionOf(vs_ids_list) \cup UnionOf(ic_ids_list)

\* C2, witness: without --save_wpc_separately, one id that a bundle
\* classifies as WPC is in the residual and another is kept out of it
C2_Witness ==
    /\ ResidualDone
    /\ ~args.save_wpc_separately
    /\ SomeBundleWpc \cap all_nc_ids # {}
    /\ SomeBundleWpc \ all_nc_ids # {}

\* C3: without --save_wpc_separately, every id that is a WPC of some bundle
\* and neither a VS of a bundle nor an IC of a false pair is in the
\* residual file main writes, and the reported WPC count is 0.
C3_WpcMergedBackWithInvalid ==
    ~args.save_wpc_separately =>
        /\ ResidualDone =>
              \A id \in SomeBundleWpc \ (SomeBundleVs \cup UnionOf(ic_ids_list)) :
                 /\ ResidualPath(args) \in DOMAIN tractogram_files
                 /\ id \in tractogram_files[ResidualPath(args)]
        /\ pc = "done" => Report.global.WPC = 0

\* C3, witness: a run without --save_wpc_separately has ended with a
\* report, and a WPC of some bundle is in the residual file
C3_Witness ==
    /\ pc = "done"
    /\ ~args.save_wpc_separately
    /\ ResidualPath(args) \in DOMAIN tractogram_files
    /\ SomeBundleWpc \cap tractogram_files[ResidualPath(args)] # {}

\* C5: when a run aborts on a malformed configuration, on a mask or ROI
\* not compatible with the tractogram or on a missing input, neither
\* processing_stats.json nor results.json is written.
C5_NoReportOnFatalInput ==
    (pc = "aborted"
        /\ error \in {"ConfigError", "IncompatibleHeader", "MissingInput"})
    => bundle_stats_dict = None /\ final_results = None

\* C5, witness: a run has aborted on a malformed configuration, after
\* making its output directories
C5_Witness ==
    /\ pc = "aborted"
    /\ error = "ConfigError"
    /\ "segmented_VB" \in dirs

\* C6: no run aborts on a division by zero: with no streamline, or with a
\* gt_mask of no voxel, compute_tractometry returns a report.
C6_NoDivisionByZero ==
    (pc \in {"done", "aborted"} /\ ~IsNone(config_read)
        /\ (Len(sft) = 0 \/ \E i \in DOMAIN gt_masks : gt_masks[i] = Some({})))
    => error # "ZeroDivisionError"

\* C7: a run whose configuration has a bundle without gt_mask does not
\* abort in compute_tractometry on that bundle.
C7_NoGtMaskCompletes ==
    (pc \in {"done", "aborted"}
        /\ \E i \in DOMAIN gt_masks : IsNone(gt_masks[i]))
    => error # "KeyError"


\* compute_vb_vs_all_bundles has returned
DuplicatesDone ==
    \/ pc \in {"wpc", "stats", "ic", "nc", "tractometry", "done"}
    \/ pc = "aborted"
          /\ error \in {"ValueError", "KeyError", "ZeroDivisionError"}

\* the pairs of bundles, in the order of the configuration
BundlePairs ==
    {p \in (DOMAIN bundle_names) \X (DOMAIN bundle_names) : p[1] < p[2]}

\* what C8 states of the pair of bundles p
ConflictsOfPair(p) ==
    LET path == DuplicatesPath(bundle_names[p[1]], bundle_names[p[2]])
        both == Scored(p[1]).vs_ids \cap Scored(p[2]).vs_ids
    IN  /\ path \in DOMAIN tractogram_files <=> both # {}
        /\ both # {} =>
              /\ tractogram_files[path] = both
              /\ \A i \in {p[1], p[2]} :
                    /\ both \subseteq vs_ids_list[i]
                    /\ both \subseteq tractogram_files[VsPath(bundle_names[i])]
                    /\ bundles_stats[i].VS = Cardinality(Scored(i).vs_ids)

\* C8: once every bundle is classified, a conflicts file is written for a
\* pair of bundles exactly when their VS sets intersect, it holds exactly
\* the ids of the intersection, the conflicts directory is made only when
\* some pair has duplicates, and the duplicated ids stay in the VS set, the
\* VS file and the VS count of both bundles.
C8_ConflictsPerPair ==
    DuplicatesDone =>
        /\ \A p \in BundlePairs : ConflictsOfPair(p)
        /\ "segmented_conflicts" \in dirs
              <=> \E p \in BundlePairs :
                     Scored(p[1]).vs_ids \cap Scored(p[2]).vs_ids # {}

\* the conflicts files of the pairs of bundles have different paths
ConflictPathsDistinct ==
    \A p, q \in BundlePairs :
        p # q => DuplicatesPath(bundle_names[p[1]], bundle_names[p[2]])
                    # DuplicatesPath(bundle_names[q[1]], bundle_names[q[2]])

\* C8 holds of the runs in which no two pairs of bundles share the path of
\* their conflicts file
ConflictsPerPairWhenPathsDistinct ==
    ConflictPathsDistinct => C8_ConflictsPerPair

\* the WPC ids of bundle i less the VS ids of the other bundles
ReconciledWpc(i) ==
    Scored(i).wpc_ids
        \ UNION {Scored(j).vs_ids : j \in DOMAIN bundle_names \ {i}}

\* C9: with --remove_wpc_belonging_to_another_bundle, the WPC set of every
\* bundle that is saved and aggregated is its raw WPC set less the VS of
\* the other bundles, the number of removed ids is in the bundle's stats
\* under its own counter, and no VS set changes.
C9_WpcReconciled ==
    (ResidualDone /\ args.save_wpc_separately
        /\ args.remove_wpc_belonging_to_another_bundle)
    => /\ \A i \in DOMAIN bundle_names :
             /\ wpc_sft_list[i] = ReconciledWpc(i)
             /\ Written(ReconciledWpc(i), args) =>
                   tractogram_files[WpcPath(bundle_names[i])]
                      = ReconciledWpc(i)
             /\ bundles_stats[i].Belonging_to_another_bundle
                   = Cardinality(Scored(i).wpc_ids \ ReconciledWpc(i))
             /\ vs_ids_list[i] = Scored(i).vs_ids
       /\ all_wpc_ids = UNION {ReconciledWpc(i) : i \in DOMAIN bundle_names}

\* main's "# IC" step has scored the false connections
FalseConnectionsScored ==
    /\ args.compute_IC
    /\ pc = "nc" \/ ResidualDone

\* the unordered pairs of two distinct endpoint ROIs
RoiPairs ==
    LET rois == Range(gt_tails) \cup Range(gt_heads) IN
    {{a, b} : a \in rois, b \in rois} \ {{a} : a \in rois}

\* the declared pairs, as unordered pairs
DeclaredPairs == {{gt_tails[i], gt_heads[i]} : i \in DOMAIN bundle_names}

\* C10: with --compute_IC, the pairs of ROIs scored as false connections
\* are the unordered pairs of two distinct endpoint ROIs that are not the
\* (head, tail) pair of a bundle, each scored once.
C10_FalsePairsScored ==
    FalseConnectionsScored =>
        /\ {{comb_filename[n][1], comb_filename[n][2]} :
               n \in DOMAIN comb_filename} = RoiPairs \ DeclaredPairs
        /\ \A n, m \in DOMAIN comb_filename :
              n # m => {comb_filename[n][1], comb_filename[n][2]}
                          # {comb_filename[m][1], comb_filename[m][2]}
        /\ DOMAIN ic_ids_list = DOMAIN comb_filename
        /\ \A n \in DOMAIN comb_filename :
              ic_ids_list[n] =
                 {id \in Ids(sft) :
                     ConnectsBoth(Streamline(sft, id),
                                  MaskOf(comb_filename[n][1]),
                                  MaskOf(comb_filename[n][2]))}

\* C10, witness: with two bundles, several false pairs are scored and one
\* of them has an IC
C10_Witness ==
    /\ FalseConnectionsScored
    /\ Len(bundle_names) = 2
    /\ Len(comb_filename) > 1
    /\ \E n \in DOMAIN ic_ids_list : ic_ids_list[n] # {}

(***************************************************************************)
(* The order of the bundles.                                               *)
(***************************************************************************)
\* the orders of n bundles
Orders(n) == {p \in [1..n -> 1..n] : \A i, j \in 1..n : p[i] = p[j] => i = j}

\* the configuration cfg with its bundles listed in the order p
Reordered(cfg, p) == [i \in DOMAIN cfg |-> cfg[p[i]]]

\* a list of per-bundle values, as a mapping from the names of the bundles
ByName(names, list) ==
    [name \in {names[i] : i \in DOMAIN list} |->
        list[CHOOSE i \in DOMAIN list : names[i] = name]]

\* what a run of main on the configuration cfg, the tractogram t and the
\* arguments a computes, step after step, when cfg is accepted and the
\* inputs are loaded
RunOf(cfg, t, a) ==
    LET rd == read_config_file(cfg, a.use_gt_masks_as_limits_masks)
        ends == compute_endpoint_masks(rd.roi_options)
        inv == compute_masks(rd.limits_masks).inv_masks
        masks == compute_masks(rd.gt_masks).masks
        n == Len(rd.bundles)
        scored == [i \in 1..n |->
                     extract_vb_vs(t, ends.heads[i], ends.tails[i],
                                   rd.lengths[i], rd.angles[i],
                                   rd.orientation_lengths[i], inv[i],
                                   dilate_endpoints, use_abs)]
        vs_list == [i \in 1..n |-> scored[i].vs_ids]
        raw_wpc == [i \in 1..n |-> scored[i].wpc_ids]
        raw_stats == [i \in 1..n |-> scored[i].bundle_stats]
        wpc_list == IF a.save_wpc_separately THEN raw_wpc ELSE <<>>
        wpc_sfts == IF a.save_wpc_separately
                    THEN [i \in 1..n |-> CleanedWpc(raw_wpc, vs_list, i, a)]
                    ELSE <<>>
        stats == IF a.save_wpc_separately
                 THEN [i \in 1..n |->
                         CleanedStats(raw_stats, raw_wpc, vs_list, i, a)]
                 ELSE raw_stats
        fc == IF a.compute_IC
              THEN FalseConnections(RemoveDuplicates(ends.tails \o ends.heads),
                                    ends.tails, ends.heads)
              ELSE [err |-> FALSE, list |-> <<>>]
        ic_list == [k \in DOMAIN fc.list |->
                      extract_false_connections(t, fc.list[k][1],
                                                fc.list[k][2],
                                                dilate_endpoints)]
        vs == UnionOf(vs_list)
        wpc == UnionOf(wpc_list)
        ic == UnionOf(ic_list)
        nc == Residual(t, vs, wpc, ic)
    IN  [names |-> rd.bundles, vs_list |-> vs_list, wpc_list |-> wpc_list,
         wpc_sfts |-> wpc_sfts, stats |-> stats, ic_err |-> fc.err,
         vs |-> vs, wpc |-> wpc, ic |-> ic, nc |-> nc,
         report |-> IF fc.err THEN [err |-> "ValueError", results |-> None]
                    ELSE compute_tractometry(vs, wpc, ic, nc, vs_list,
                            wpc_list, ic_list, wpc_sfts, t, a, rd.bundles,
                            masks, fc.list)]

\* the run in the state has computed what the run o computes: the global
\* sets, the sets and the stats of every bundle, and the global counts
SameOutcome(o) ==
    /\ ~o.ic_err
    /\ all_vs_ids = o.vs /\ all_wpc_ids = o.wpc
    /\ all_ic_ids = o.ic /\ all_nc_ids = o.nc
    /\ ByName(bundle_names, vs_ids_list) = ByName(o.names, o.vs_list)
    /\ ByName(bundle_names, wpc_ids_list) = ByName(o.names, o.wpc_list)
    /\ ByName(bundle_names, wpc_sft_list) = ByName(o.names, o.wpc_sfts)
    /\ ByName(bundle_names, bundles_stats) = ByName(o.names, o.stats)
    /\ pc = "done" =>
          /\ o.report.err = ""
          /\ Report.global = Get(o.report.results).global
    /\ pc = "aborted" => o.report.err # ""

\* C11: a run that ends after it has computed its residual has the global
\* VS, WPC, IC and NC sets, the per-bundle VS and WPC sets and stats, and,
\* when it ends with a report, the global counts, of the run on the same
\* tractogram and flags whose configuration lists the same bundles in any
\* other order.
C11_OrderIndependent ==
    (ResidualDone /\ pc # "tractometry") =>
        \A p \in Orders(Len(config)) :
            SameOutcome(RunOf(Reordered(config, p), sft, args))

\* C11, witness: a run of two bundles with different VS sets, one of which
\* has a WPC that the other holds as VS, ends with a report
C11_Witness ==
    /\ pc = "done"
    /\ Len(bundle_names) = 2
    /\ args.save_wpc_separately
    /\ args.remove_wpc_belonging_to_another_bundle
    /\ vs_ids_list[1] # vs_ids_list[2]
    /\ \E i \in 1..2 : wpc_ids_list[i] # wpc_sft_list[i]

(***************************************************************************)
(* The streamline files of a run.                                          *)
(***************************************************************************)
\* the paths of the VS files, of the WPC files and of the IC files
VsFiles == {VsPath(bundle_names[i]) : i \in DOMAIN bundle_names}
WpcFiles == {WpcPath(bundle_names[i]) : i \in DOMAIN bundle_names}
IcFiles == {IcPath(comb_filename[n]) : n \in DOMAIN comb_filename}

\* the number of files written among the paths
NbWritten(paths) == Cardinality(paths \cap DOMAIN tractogram_files)

\* C12: once the residual is written, with --no_empty no streamline file
\* is empty; without it there is one VS file per bundle, one WPC file per
\* bundle with --save_wpc_separately (none without), one IC file per false
\* pair, and the residual file.
C12_EmptyOutputs ==
    ResidualDone =>
        /\ args.no_empty =>
              \A path \in DOMAIN tractogram_files :
                  tractogram_files[path] # {}
        /\ ~args.no_empty =>
              /\ NbWritten(VsFiles) = nb_bundles
              /\ NbWritten(WpcFiles) =
                    IF args.save_wpc_separately THEN nb_bundles ELSE 0
              /\ NbWritten(IcFiles) = Len(comb_filename)
              /\ ResidualPath(args) \in DOMAIN tractogram_files

\* the IC files of the false pairs have different paths
IcPathsDistinct ==
    \A n, m \in DOMAIN comb_filename :
        n # m => IcPath(comb_filename[n]) # IcPath(comb_filename[m])

\* C12 holds of the runs in which no two false pairs share the path of
\* their IC file
EmptyOutputsWhenPathsDistinct == IcPathsDistinct => C12_EmptyOutputs

\* the writes of streamline files the run has made so far: the kind of the
\* file, the bundle, pair of bundles or pair of ROIs it is for, its path
ArtifactWrites ==
    {<<"VS", <<i>>, VsPath(bundle_names[i])>> :
        i \in {k \in DOMAIN vs_ids_list : Written(vs_ids_list[k], args)}}
    \cup {<<"WPC", <<i>>, WpcPath(bundle_names[i])>> :
        i \in {k \in DOMAIN wpc_sft_list : Written(wpc_sft_list[k], args)}}
    \cup {<<"IC", <<n>>, IcPath(comb_filename[n])>> :
        n \in {k \in DOMAIN ic_ids_list : Written(ic_ids_list[k], args)}}
    \cup (IF DuplicatesDone
          THEN {<<"conflicts", p,
                  DuplicatesPath(bundle_names[p[1]], bundle_names[p[2]])>> :
                   p \in {q \in BundlePairs :
                            DuplicateIds(vs_ids_list, q[1], q[2]) # {}}}
          ELSE {})
    \cup (IF ResidualDone /\ Written(all_nc_ids, args)
          THEN {<<"residual", <<>>, ResidualPath(args)>>}
          ELSE {})

\* C13: no two writes of streamline files of a run have the same path.
C13_DistinctPaths ==
    \A w1, w2 \in ArtifactWrites : w1 # w2 => w1[3] # w2[3]

\* C13 holds of the runs in which neither two pairs of bundles share the
\* path of their conflicts file nor two false pairs that of their IC file
DistinctPathsWhenNamesDistinct ==
    (ConflictPathsDistinct /\ IcPathsDistinct) => C13_DistinctPaths

(***************************************************************************)
(* The classification rule.                                                *)
(***************************************************************************)
\* the streamline of id passes the endpoint test of bundle i
PassesEndpoints(id, i) ==
    ConnectsBoth(Streamline(sft, id), MaskOf(gt_heads[i]),
                 MaskOf(gt_tails[i]))

\* the streamline of id passes every criterion bundle i supplies; a
\* streamline of length zero fails the angle and the length criteria
PassesCriteria(id, i) ==
    LET sl == Streamline(sft, id) IN
    /\ ~IsNone(limits_inv_masks[i]) =>
          VoxelsOf(sl) \cap Get(limits_inv_masks[i]) = {}
    /\ ~IsNone(angles[i]) =>
          PathLength(sl) > 0 /\ MaxAngle(sl) <= Get(angles[i])
    /\ ~IsNone(lengths[i]) =>
          /\ PathLength(sl) > 0
          /\ PathLength(sl) >= Get(lengths[i])[1]
          /\ PathLength(sl) <= Get(lengths[i])[2]
    /\ ~IsNone(orientation_lengths[i]) =>
          /\ AxisLength(sl, use_abs) >= Get(orientation_lengths[i])[1][1]
          /\ AxisLength(sl, use_abs) <= Get(orientation_lengths[i])[1][2]

\* bundle i supplies no optional criterion
NoCriteria(i) ==
    /\ IsNone(limits_inv_masks[i]) /\ IsNone(angles[i])
    /\ IsNone(lengths[i]) /\ IsNone(orientation_lengths[i])

\* C14: for every classified bundle, a streamline is VS iff it passes the
\* endpoint test and every supplied criterion, WPC iff it passes the
\* endpoint test and fails a supplied criterion, and neither otherwise; so
\* the VS and the WPC of a bundle are disjoint, and a bundle without
\* criteria has no WPC.
C14_TwoStageRule ==
    \A i \in DOMAIN vs_ids_list :
        /\ \A id \in Ids(sft) :
              /\ id \in vs_ids_list[i]
                    <=> PassesEndpoints(id, i) /\ PassesCriteria(id, i)
              /\ id \in wpc_ids_list[i]
                    <=> PassesEndpoints(id, i) /\ ~PassesCriteria(id, i)
        /\ vs_ids_list[i] \subseteq Ids(sft)
        /\ wpc_ids_list[i] \subseteq Ids(sft)
        /\ vs_ids_list[i] \cap wpc_ids_list[i] = {}
        /\ NoCriteria(i) => wpc_ids_list[i] = {}

\* C14, witness: a bundle with an angle bound is classified, with a VS and
\* a WPC that is not of length zero: it turns back
C14_Witness ==
    /\ pc = "duplicates"
    /\ ~IsNone(angles[1])
    /\ vs_ids_list[1] # {}
    /\ \E id \in wpc_ids_list[1] :
          /\ PathLength(Streamline(sft, id)) > 0
          /\ MaxAngle(Streamline(sft, id)) > Get(angles[1])

(***************************************************************************)
(* The per-axis bounds read from the configuration.                        *)
(***************************************************************************)
\* the keys of the per-axis bounds, in x, y, z order
AxisKeys == <<"length_x", "length_y", "length_z">>

\* the bounds of bundle bc along the axis of key k: as configured, or
\* [0, +infinity)
AxisBounds(bc, k) == IF HasKey(bc, k) THEN bc.vals[k] ELSE <<0, Inf>>

\* C15: when read_config_file returns, the per-axis bounds of a bundle
\* with none of length_x, length_y, length_z are None, and those of a bundle
\* with some of them are the triple, in x, y, z order, of the configured
\* pair of each given axis and of [0, +infinity) for each absent axis.
C15_AxisBounds ==
    pc = "returned" =>
        \A i \in DOMAIN config :
            LET returned == Get(config_read).orientation_lengths[i] IN
            IF \A n \in DOMAIN AxisKeys : ~HasKey(config[i], AxisKeys[n])
            THEN returned = None
            ELSE returned =
                    Some([n \in DOMAIN AxisKeys |->
                            AxisBounds(config[i], AxisKeys[n])])

\* C15, witness: read_config_file returns for a bundle with length_z and
\* without length_x and length_y
C15_Witness ==
    /\ pc = "returned"
    /\ HasKey(config[1], "length_z")
    /\ ~HasKey(config[1], "length_x") /\ ~HasKey(config[1], "length_y")
    /\ Get(config_read).orientation_lengths[1]
          = Some(<<(<<0, Inf>>), <<0, Inf>>, DefaultVals["length_z"]>>)

(***************************************************************************)
(* The gt_masks as limits masks.                                           *)
(***************************************************************************)
\* C16: with --use_gt_masks_as_limits_masks, once the bundles are scored,
\* the limits mask of every bundle with a gt_mask is its gt_mask, no voxel
\* of a VS streamline of the bundle is outside its gt_mask, and the OR that
\* compute_tractometry computes, and reports, for the bundle is 0.
C16_NoOverreach ==
    (args.use_gt_masks_as_limits_masks /\ ResidualDone) =>
        \A i \in DOMAIN bundle_names :
            ~IsNone(gt_masks[i]) =>
                /\ limits_inv_masks[i] = Some(Vox \ Get(gt_masks[i]))
                /\ get_binary_maps(vs_ids_list[i], sft).voxels
                      \subseteq Get(gt_masks[i])
                /\ VbResults(vs_ids_list, gt_masks, sft, i).OR = 0
                /\ pc = "done" =>
                      Report.bundle_wise[bundle_names[i]].VB.OR = 0

\* C16, witness: a run with the flag ends with a report, one of its bundles
\* has a VS and one has streamlines rejected for leaving the gt_mask
C16_Witness ==
    /\ args.use_gt_masks_as_limits_masks
    /\ pc = "done"
    /\ \E i \in DOMAIN bundle_names : vs_ids_list[i] # {}
    /\ \E i \in DOMAIN bundle_names : bundles_stats[i].WPC_out_of_mask > 0

(***************************************************************************)
(* The Dice coefficient.                                                   *)
(***************************************************************************)
\* the Dice coefficient reported for bundle i, as the ratio of two counts
ReportedDice(i) == Report.bundle_wise[bundle_names[i]].VB.dice

\* the voxels of the VS streamlines of bundle i
VbVoxels(i) == get_binary_maps(vs_ids_list[i], sft).voxels

\* C17: in a report, the Dice coefficient of every bundle is a ratio
\* between 0 and 1; it is 1 when the voxels of the VS of the bundle are
\* its gt_mask, and 0 when they are not empty and share no voxel with it.
C17_DiceRange ==
    pc = "done" =>
        \A i \in DOMAIN bundle_names :
            /\ ReportedDice(i)[2] > 0
            /\ 0 <= ReportedDice(i)[1]
            /\ ReportedDice(i)[1] <= ReportedDice(i)[2]
            /\ VbVoxels(i) = Get(gt_masks[i]) =>
                  ReportedDice(i)[1] = ReportedDice(i)[2]
            /\ (VbVoxels(i) # {} /\ VbVoxels(i) \cap Get(gt_masks[i]) = {})
                  => ReportedDice(i)[1] = 0

\* C17, witness: a report in which the VS of one bundle cover exactly its
\* gt_mask and the VS of another are outside its gt_mask
C17_Witness ==
    /\ pc = "done"
    /\ \E i \in DOMAIN bundle_names : VbVoxels(i) = Get(gt_masks[i])
    /\ \E i \in DOMAIN bundle_names :
          VbVoxels(i) # {} /\ VbVoxels(i) \cap Get(gt_masks[i]) = {}

(***************************************************************************)
(* The residual.                                                           *)
(***************************************************************************)
\* the ids of the global VS, WPC and IC sets handed to compute_tractometry
AllScoredIds == all_vs_ids \cup all_wpc_ids \cup all_ic_ids

\* C18: once main has computed the residual, an id of the tractogram is in
\* it iff it is in none of the global VS, WPC and IC sets, and in a report
\* the NC count and the number of ids of those three sets add up to the
\* number of streamlines.
C18_ResidualIsComplement ==
    ResidualDone =>
        /\ AllScoredIds \subseteq Ids(sft)
        /\ \A id \in Ids(sft) : id \in all_nc_ids <=> id \notin AllScoredIds
        /\ all_nc_ids \subseteq Ids(sft)
        /\ pc = "done" =>
              /\ Report.global.NC + Cardinality(AllScoredIds) = Len(sft)
              /\ Report.global.total_streamlines = Len(sft)

\* C18, witness: a report of a run with a VS, an IC and a residual
\* streamline
C18_Witness ==
    /\ pc = "done"
    /\ all_vs_ids # {} /\ all_ic_ids # {} /\ all_nc_ids # {}
    /\ Report.global.NC = Cardinality(all_nc_ids)

(***************************************************************************)
(* The order of the phases of a run.                                       *)
(***************************************************************************)
\* every bundle has been classified
AllClassified ==
    /\ Len(vs_ids_list) = nb_bundles
    /\ Len(bundles_stats) = nb_bundles
    /\ \A i \in 1..nb_bundles : vs_ids_list[i] = Scored(i).vs_ids

\* the WPC of every bundle have been cleaned, when they are saved separately
AllWpcCleaned ==
    args.save_wpc_separately =>
        /\ Len(wpc_sft_list) = nb_bundles
        /\ \A i \in 1..nb_bundles :
              /\ wpc_sft_list[i] =
                    CleanedWpc(wpc_ids_list, vs_ids_list, i, args)
              /\ bundles_stats[i].Cleaned_WPC = Cardinality(wpc_sft_list[i])

\* every false pair has been scored, when IC are computed
AllPairsScored ==
    args.compute_IC =>
        /\ comb_filename = FalseConnections(all_rois, gt_tails, gt_heads).list
        /\ Len(ic_ids_list) = Len(comb_filename)

\* the duplicates detection has started
DuplicatesStarted ==
    \/ pc \in {"duplicates", "wpc", "stats", "ic", "nc", "tractometry", "done"}
    \/ "segmented_conflicts" \in dirs

\* C19: the duplicates detection starts only once every bundle is
\* classified; processing_stats.json is written only once every bundle is
\* classified and its WPC cleaned, and holds the statistics after cleaning;
\* results.json is written only once processing_stats.json, every bundle,
\* every false pair and the residual are complete, and nothing follows it.
C19_PhasesFanIn ==
    /\ DuplicatesStarted => AllClassified
    /\ ~IsNone(bundle_stats_dict) =>
          /\ AllClassified /\ AllWpcCleaned
          /\ pc \notin {"load", "vs", "duplicates", "wpc", "stats"}
          /\ \A i \in 1..nb_bundles :
                \E j \in 1..nb_bundles :
                   /\ bundle_names[j] = bundle_names[i]
                   /\ Get(bundle_stats_dict)[bundle_names[i]]
                         = bundles_stats[j]
    /\ ~IsNone(final_results) =>
          /\ ~IsNone(bundle_stats_dict)
          /\ AllPairsScored
          /\ all_nc_ids = Residual(sft, UnionOf(vs_ids_list),
                                   UnionOf(wpc_ids_list), UnionOf(ic_ids_list))
          /\ DOMAIN Report.bundle_wise
                = Range(bundle_names)
                    \cup (IF args.compute_IC THEN {"IB"} ELSE {})
          /\ pc = "done"
          /\ ~ENABLED Next

\* C19, witness: a run of two bundles that share a VS, with the WPC saved
\* and a false pair scored, wrote results.json
C19_Witness ==
    /\ pc = "done" /\ ~IsNone(final_results)
    /\ nb_bundles = 2
    /\ "segmented_conflicts" \in dirs
    /\ args.save_wpc_separately
    /\ args.compute_IC /\ Len(comb_filename) >= 1

(***************************************************************************)
(* The removal of the true connections.                                    *)
(***************************************************************************)
\* C20: with --compute_IC, once the configuration is accepted, the removal
\* of the pairs of the bundles from the combinations of the ROIs raises
\* nothing, and no run ends on the ValueError of list.remove.
C20_RemovalCompletes ==
    (args.compute_IC /\ ~IsNone(config_read)) =>
        /\ ~FalseConnections(all_rois, gt_tails, gt_heads).err
        /\ error # "ValueError"

\* C20: the removal raises nothing when no two bundles have the same pair
\* of ROIs and no bundle has the same head and tail
PairsDistinct ==
    /\ \A i \in DOMAIN gt_tails : gt_tails[i] # gt_heads[i]
    /\ \A i, j \in DOMAIN gt_tails :
          i # j => SortedPair(gt_tails[i], gt_heads[i])
                      # SortedPair(gt_tails[j], gt_heads[j])

RemovalCompletesWhenPairsDistinct ==
    (args.compute_IC /\ ~IsNone(config_read) /\ PairsDistinct) =>
        /\ ~FalseConnections(all_rois, gt_tails, gt_heads).err
        /\ error # "ValueError"

(***************************************************************************)
(* The global VS and WPC sets.                                             *)
(***************************************************************************)
\* the VS and the WPC of every bundle, as classified, are disjoint
OwnVsWpcDisjoint ==
    \A i \in DOMAIN bundle_names :
        Scored(i).vs_ids \cap Scored(i).wpc_ids = {}

\* C21: with --save_wpc_separately and
\* --remove_wpc_belonging_to_another_bundle, when the VS and the WPC of
\* every bundle are disjoint, no id is both in the global VS set and in the
\* global WPC set, and a report counts no streamline as both.
C21_GlobalVsWpcDisjoint ==
    (ResidualDone /\ args.save_wpc_separately
        /\ args.remove_wpc_belonging_to_another_bundle
        /\ OwnVsWpcDisjoint)
    => /\ all_vs_ids \cap all_wpc_ids = {}
       /\ pc = "done" =>
             Report.global.VS + Report.global.WPC
                = Cardinality(all_vs_ids \cup all_wpc_ids)

\* C21: the WPC that save_wpc_all_bundles saved, unlike the global WPC set,
\* hold no VS of any bundle
SavedWpcHoldNoVs ==
    (ResidualDone /\ args.save_wpc_separately
        /\ args.remove_wpc_belonging_to_another_bundle
        /\ OwnVsWpcDisjoint)
    => UnionOf(wpc_sft_list) \cap all_vs_ids = {}

(***************************************************************************)
(* The voxel counts of a bundle.                                           *)
(***************************************************************************)
\* the voxels where an array is not zero
Support(array) == {v \in Vox : array[v] # 0}

\* the report of the VS of bundle i
ReportedVb(i) == Report.bundle_wise[bundle_names[i]].VB

\* C22: in a report, for every bundle with a gt_mask, OL plus lacking is
\* the number of voxels of the gt_mask, OL plus OR is the number of voxels
\* of the mask of the recovered VS, and the overlap, overreach and lacking
\* voxels are pairwise disjoint.
C22_VoxelCounts ==
    pc = "done" =>
        \A i \in DOMAIN bundle_names :
            ~IsNone(gt_masks[i]) =>
                LET gt == Get(gt_masks[i])
                    ol == Support(OverlapMask(gt, VbVoxels(i)))
                    or == Support(OverreachMask(gt, VbVoxels(i)))
                    lacking == Support(BundleLacking(gt, VbVoxels(i)))
                IN  /\ ReportedVb(i).OL + ReportedVb(i).lacking
                          = Cardinality(gt)
                    /\ ReportedVb(i).OL + ReportedVb(i).OR
                          = Cardinality(VbVoxels(i))
                    /\ ReportedVb(i).OL = Cardinality(ol)
                    /\ ReportedVb(i).OR = Cardinality(or)
                    /\ ReportedVb(i).lacking = Cardinality(lacking)
                    /\ ol \cap or = {}
                    /\ ol \cap lacking = {}
                    /\ or \cap lacking = {}

\* C22, witness: a report of a bundle whose recovered VS overlap its
\* gt_mask and reach out of it, and of a bundle whose gt_mask has a voxel
\* the VS lack
C22_Witness ==
    /\ pc = "done"
    /\ \E i \in DOMAIN bundle_names :
          /\ ~IsNone(gt_masks[i])
          /\ ReportedVb(i).OL >= 1 /\ ReportedVb(i).OR >= 1
    /\ \E i \in DOMAIN bundle_names :
          /\ ~IsNone(gt_masks[i])
          /\ ReportedVb(i).lacking >= 1

(***************************************************************************)
(* Dataset.get_voxel_value.                                                *)
(***************************************************************************)
\* an index brought back to the voxels 0 .. n - 1 of an axis
Clamped(n, i) == IF i < 0 THEN 0 ELSE IF i > n - 1 THEN n - 1 ELSE i

\* the voxel of the clamped indices
ClampedVoxel(dim, q) == [ax \in 1..3 |-> Clamped(dim[ax], q[ax])]

\* the squared distance from indices to a voxel
Dist2(q, v) ==
    (q[1] - v[1]) * (q[1] - v[1]) + (q[2] - v[2]) * (q[2] - v[2])
        + (q[3] - v[3]) * (q[3] - v[3])

\* C23: a call of get_voxel_value raises no IndexError; with indices in
\* bound it returns the value of that voxel, and otherwise the value of the
\* voxel whose index on each axis is clamped to [0, dim - 1], which is a
\* nearest voxel of the image.
C23_NearestVoxel ==
    ~IsNone(value) =>
        LET self == Get(dataset)
            q == Get(voxel)
            in == \A ax \in 1..3 : 0 <= q[ax] /\ q[ax] < self.dim[ax]
            near == ClampedVoxel(self.dim, q)
        IN  /\ ~Get(value).err
            /\ in => Get(value).value
                        = self.data[[ax \in 1..3 |-> q[ax]]]
            /\ Get(value).value = self.data[near]
            /\ near \in DOMAIN self.data
            /\ \A v \in DOMAIN self.data : Dist2(q, near) <= Dist2(q, v)

\* C23, witness: a call on an image of two voxels or more along every axis,
\* with an index under 0, an index over dim - 1 and an index in bound
C23_Witness ==
    /\ ~IsNone(value)
    /\ \A ax \in 1..3 : Get(dataset).dim[ax] >= 2
    /\ Get(voxel)[1] < 0
    /\ Get(voxel)[2] > Get(dataset).dim[2] - 1
    /\ Get(voxel)[3] = 1
    /\ ~Get(value).err
    /\ Get(value).value = Get(dataset).data[ClampedVoxel(Get(dataset).dim,
                                                         Get(voxel))]

=============================================================================
